---- MODULE Spec2Model ----
(***************************************************************************)
(* Model of the dice game backend: the per-connection message loop         *)
(* (handler.HandleClient), the play / get_balance / end_play handlers, the *)
(* Redis exclusion lock, the wallet service over PostgreSQL and the game   *)
(* service.                                                                *)
(*                                                                         *)
(* One step of the model is one blocking call of a worker (ReadMessage, a  *)
(* Redis command, a SQL statement or transaction end) followed by the      *)
(* local code that runs until the next blocking call.  Workers of          *)
(* different connections interleave between steps.                         *)
(*                                                                         *)
(* A store call that returns an error is modelled as having had no effect  *)
(* on the store.  The lock key's TTL is modelled by the environment action *)
(* ExpireLock, enabled whenever the key exists: nothing in the handler     *)
(* bounds the wall-clock time between SetNX and Del (writes to the         *)
(* connection carry no deadline).                                          *)
(***************************************************************************)
EXTENDS Integers, Sequences, FiniteSets, TLC

\* ---------------------------------------------------------------- constants
DefaultInitialBalance == 500
MaxBetAmount == 250

MsgTypePlay == "play"
MsgTypeEndPlay == "end_play"
MsgTypeGetBalance == "get_balance"
MsgTypePlayResult == "play_result"
MsgTypeBalanceUpdate == "balance_update"
MsgTypePlayEnded == "play_ended"
MsgTypeError == "error"

ErrCodeBadRequest == "BAD_REQUEST"
ErrCodeInternalError == "INTERNAL_ERROR"
ErrCodeActivePlayExists == "ACTIVE_PLAY_EXISTS"
ErrCodeInvalidBet == "INVALID_BET"
ErrCodeBetTooHigh == "BET_TOO_HIGH"
ErrCodeInvalidBetType == "INVALID_BET_TYPE"
ErrCodeInsufficientFunds == "INSUFFICIENT_FUNDS"
ErrCodeUnknownType == "UNKNOWN_TYPE"
ErrCodeFailedLockRelease == "FAILED_LOCK_RELEASE"

\* Timeouts, in seconds.  CreditOpTimeout is the 5 * time.Second of the
\* contexts handlePlay makes for its credit and for its refund.
HandlerOpTimeout == 10
ShortOpTimeout == 3
RedisLockTimeout == 15
RedisDelTimeout == 2
CreditOpTimeout == 5

BetTypeLt7 == "lt7"
BetTypeGt7 == "gt7"
OutcomeWin == "win"
OutcomeLose == "lose"

\* ------------------------------------------------------------------- bounds
\* A play message is only delivered while every balance is at most this.
MaxBalance == 500

\* Connections (one worker each) and the client identities they may declare.
Conns == {1, 2}
Clients == {"a", "b"}
ClientIds == Clients \cup {""}

\* Values a client may put into a play payload.
BetAmounts == {0, 125, 250, 251}
BetTypes == {BetTypeLt7, BetTypeGt7, "eq7"}

\* Faces of a die: rand.Intn(6) + 1.
Die == 1..6

\* Every roll of the two dice, and the rolls drawn where two workers run
\* concurrently: one with a sum below 7, one with sum 7, one above 7.
AllRolls == Die \X Die
SomeRolls == {<<1, 3>>, <<3, 4>>, <<6, 5>>}

\* ----------------------------------------------------------------- messages
NoMsg == [kind |-> "none", type |-> "", payloadOk |-> FALSE, clientId |-> "",
          betAmount |-> 0, betType |-> ""]

NonTextMsg == [NoMsg EXCEPT !.kind = "nontext"]

\* A text frame that is not a JSON envelope.
BadEnvelopeMsg == [NoMsg EXCEPT !.kind = "badenv"]

\* A text frame holding an envelope {type, payload}; payloadOk says whether
\* the payload unmarshals into the payload struct of its type.
Envelope(type, payloadOk, clientId, betAmount, betType) ==
    [kind |-> "text", type |-> type, payloadOk |-> payloadOk,
     clientId |-> clientId, betAmount |-> betAmount, betType |-> betType]

PlayMsgs ==
    {Envelope(MsgTypePlay, TRUE, id, a, t) :
        id \in ClientIds, a \in BetAmounts, t \in BetTypes}
    \cup {Envelope(MsgTypePlay, FALSE, "", 0, "")}

GetBalanceMsgs ==
    {Envelope(MsgTypeGetBalance, TRUE, id, 0, "") : id \in ClientIds}
    \cup {Envelope(MsgTypeGetBalance, FALSE, "", 0, "")}

EndPlayMsgs ==
    {Envelope(MsgTypeEndPlay, TRUE, id, 0, "") : id \in ClientIds}
    \cup {Envelope(MsgTypeEndPlay, FALSE, "", 0, "")}

UnknownMsgs == {Envelope("bogus", TRUE, "", 0, "")}

\* Every message of the model.
Inbound ==
    {NonTextMsg, BadEnvelopeMsg} \cup PlayMsgs \cup GetBalanceMsgs
    \cup EndPlayMsgs \cup UnknownMsgs

\* The messages drawn where two workers run concurrently: those that are
\* no request, and the well-formed requests of client "a" with a wager of
\* the maximum amount.
SomeInbound ==
    {m \in Inbound :
        \/ m.kind /= "text"
        \/ m.type \notin {MsgTypePlay, MsgTypeGetBalance, MsgTypeEndPlay}
        \/ /\ m.type = MsgTypePlay
           /\ m.clientId = "a"
           /\ m.betAmount = MaxBetAmount
           /\ m.betType \in {BetTypeLt7, BetTypeGt7}
        \/ /\ m.type \in {MsgTypeGetBalance, MsgTypeEndPlay}
           /\ m.payloadOk
           /\ m.clientId = "a"}

ErrorPayload(code) == [type |-> MsgTypeError, code |-> code]

BalanceUpdatePayload(clientId, balance) ==
    [type |-> MsgTypeBalanceUpdate, clientId |-> clientId, balance |-> balance]

PlayResultPayload(clientId, r, betAmount) ==
    [type |-> MsgTypePlayResult, clientId |-> clientId, die1 |-> r.Die1,
     die2 |-> r.Die2, outcome |-> r.Outcome, betAmount |-> betAmount,
     winnings |-> r.Winnings]

PlayEndedPayload(clientId, finalBalance) ==
    [type |-> MsgTypePlayEnded, clientId |-> clientId,
     finalBalance |-> finalBalance]

\* -------------------------------------------------------------------- state
VARIABLES
    wallets,          \* the wallets table: user_id -> balance, rows that exist
    locks,            \* client ids whose key active_play:<id> exists in Redis
    lockSetBy,        \* per key: the connection whose SetNX made it, or 0
    pc,               \* position of each connection's worker
    currentClientID,  \* HandleClient's currentClientID, per connection
    msg,              \* the message the worker is handling
    out,              \* messages written to the connection for that message
    debited,          \* the balance the debit of handlePlay returned, or -1
    gameResult,       \* handlePlay's gameResult
    currentBalance    \* UpdateBalance's currentBalance (row read FOR UPDATE)

vars == <<wallets, locks, lockSetBy, pc, currentClientID, msg, out, debited, gameResult,
          currentBalance>>

NoResult == [err |-> FALSE, Die1 |-> 0, Die2 |-> 0, Sum |-> 0, Outcome |-> "",
             Winnings |-> 0]

\* ------------------------------------------------------------- game service
\* The GameResult PlayRound builds from its locals.
GameResult(die1, die2, sumResult, outcome, winnings) ==
    [err |-> FALSE, Die1 |-> die1, Die2 |-> die2, Sum |-> sumResult,
     Outcome |-> outcome, Winnings |-> winnings]

\* PlayRound that knows the bet type lt7 only and refuses every other.
PlayRound_Lt7Only(betType, betAmount, die1, die2) ==
    IF betType /= BetTypeLt7
    THEN [NoResult EXCEPT !.err = TRUE]
    ELSE LET sumResult == die1 + die2
         IN IF sumResult < 7
            THEN GameResult(die1, die2, sumResult, OutcomeWin, betAmount)
            ELSE GameResult(die1, die2, sumResult, OutcomeLose, 0)

\* PlayRound with a sum of 7 counted as below 7.
PlayRound_SevenIsLow(betType, betAmount, die1, die2) ==
    IF betType /= BetTypeLt7 /\ betType /= BetTypeGt7
    THEN [NoResult EXCEPT !.err = TRUE]
    ELSE LET sumResult == die1 + die2
         IN IF sumResult <= 7
            THEN IF betType = BetTypeLt7
                 THEN GameResult(die1, die2, sumResult, OutcomeWin, betAmount)
                 ELSE GameResult(die1, die2, sumResult, OutcomeLose, 0)
            ELSE IF betType = BetTypeGt7
                 THEN GameResult(die1, die2, sumResult, OutcomeWin, betAmount)
                 ELSE GameResult(die1, die2, sumResult, OutcomeLose, 0)

\* game.Service.PlayRound with the two dice it rolls made explicit.
PlayRound(betType, betAmount, die1, die2) ==
    IF betType /= BetTypeLt7 /\ betType /= BetTypeGt7
    THEN [NoResult EXCEPT !.err = TRUE]
    ELSE LET sumResult == die1 + die2
         IN IF sumResult = 7
            THEN GameResult(die1, die2, sumResult, OutcomeLose, 0)
            ELSE IF sumResult < 7
            THEN IF betType = BetTypeLt7
                 THEN GameResult(die1, die2, sumResult, OutcomeWin, betAmount)
                 ELSE GameResult(die1, die2, sumResult, OutcomeLose, 0)
            ELSE IF betType = BetTypeGt7
                 THEN GameResult(die1, die2, sumResult, OutcomeWin, betAmount)
                 ELSE GameResult(die1, die2, sumResult, OutcomeLose, 0)

\* What a GameService may answer in place of a roll: an error.
GameSvcError == <<0, 0>>

\* h.gameSvc.PlayRound: the handler calls the game service through the
\* GameService interface; answer is the roll of game.Service, or
\* GameSvcError for an implementation whose PlayRound returns an error.
GameSvcPlayRound(betType, betAmount, answer) ==
    IF answer = GameSvcError
    THEN [NoResult EXCEPT !.err = TRUE]
    ELSE PlayRound(betType, betAmount, answer[1], answer[2])

\* ----------------------------------------------------------- wallet service
\* EnsureWalletExists with ON CONFLICT (user_id) DO UPDATE: an existing
\* wallet is set back to the default balance.
EnsureWalletExists_Upsert(w, userID) ==
    [u \in DOMAIN w \cup {userID} |->
        IF u = userID THEN DefaultInitialBalance ELSE w[u]]

\* INSERT ... ON CONFLICT (user_id) DO NOTHING
EnsureWalletExists(w, userID) ==
    IF userID \in DOMAIN w
    THEN w
    ELSE [u \in DOMAIN w \cup {userID} |->
            IF u = userID THEN DefaultInitialBalance ELSE w[u]]

\* SELECT balance FROM wallets WHERE user_id = $1; dbOk is whether the store
\* answered.
GetBalance(w, userID, dbOk) ==
    IF ~dbOk THEN [balance |-> 0, err |-> "db"]
    ELSE IF userID \notin DOMAIN w
    THEN [balance |-> 0, err |-> "ErrWalletNotFound"]
    ELSE [balance |-> w[userID], err |-> "nil"]

\* UpdateBalance up to and including SELECT ... FOR UPDATE.  locked says
\* whether the transaction now holds the row lock; otherwise ret is what
\* UpdateBalance returns.
UpdateBalanceSelect(w, userID, dbOk) ==
    IF ~dbOk
    THEN [locked |-> FALSE, currentBalance |-> 0,
          ret |-> [newBalance |-> 0, err |-> "db"]]
    ELSE IF userID \notin DOMAIN w
    THEN [locked |-> FALSE, currentBalance |-> 0,
          ret |-> [newBalance |-> 0, err |-> "ErrWalletNotFound"]]
    ELSE [locked |-> TRUE, currentBalance |-> w[userID],
          ret |-> [newBalance |-> 0, err |-> "nil"]]

\* UpdateBalanceCommit without the funds check of UpdateBalance: only the
\* table's CHECK refuses a negative balance.
UpdateBalanceCommit_NoFundsCheck(w, userID, cur, amountChange, dbOk) ==
    LET potentialNewBalance == cur + amountChange
    IN IF ~dbOk \/ potentialNewBalance < 0
       THEN [w |-> w, ret |-> [newBalance |-> 0, err |-> "db"]]
       ELSE [w |-> [w EXCEPT ![userID] = potentialNewBalance],
             ret |-> [newBalance |-> potentialNewBalance, err |-> "nil"]]

\* UpdateBalanceCommit without the deferred rollback: the UPDATE stays
\* applied when the commit returns an error.
UpdateBalanceCommit_NoRollback(w, userID, cur, amountChange, dbOk) ==
    LET potentialNewBalance == cur + amountChange
    IN IF potentialNewBalance < 0
       THEN [w |-> w, ret |-> [newBalance |-> 0, err |-> "ErrInsufficientFunds"]]
       ELSE IF ~dbOk
       THEN [w |-> [w EXCEPT ![userID] = potentialNewBalance],
             ret |-> [newBalance |-> 0, err |-> "db"]]
       ELSE [w |-> [w EXCEPT ![userID] = potentialNewBalance],
             ret |-> [newBalance |-> potentialNewBalance, err |-> "nil"]]

\* UpdateBalance from the funds check to the commit (or the deferred
\* rollback).  The UPDATE is refused by the table's balance_non_negative
\* CHECK when the new balance is negative.
UpdateBalanceCommit(w, userID, cur, amountChange, dbOk) ==
    LET potentialNewBalance == cur + amountChange
    IN IF potentialNewBalance < 0
       THEN [w |-> w, ret |-> [newBalance |-> 0, err |-> "ErrInsufficientFunds"]]
       ELSE IF ~dbOk \/ potentialNewBalance < 0
       THEN [w |-> w, ret |-> [newBalance |-> 0, err |-> "db"]]
       ELSE [w |-> [w EXCEPT ![userID] = potentialNewBalance],
             ret |-> [newBalance |-> potentialNewBalance, err |-> "nil"]]

\* ------------------------------------------------------------ handler helpers
\* acquireRedisLock with SET in place of SetNX: an existing key is
\* overwritten.
acquireRedisLock_Overwrite(l, key, redisOk) ==
    IF ~redisOk THEN [l |-> l, wasSet |-> FALSE, err |-> TRUE]
    ELSE [l |-> l \cup {key}, wasSet |-> TRUE, err |-> FALSE]

\* acquireRedisLock that leaves the key set when the SetNX fails.
acquireRedisLock_SetOnError(l, key, redisOk) ==
    IF ~redisOk THEN [l |-> l \cup {key}, wasSet |-> FALSE, err |-> TRUE]
    ELSE IF key \in l THEN [l |-> l, wasSet |-> FALSE, err |-> FALSE]
    ELSE [l |-> l \cup {key}, wasSet |-> TRUE, err |-> FALSE]

\* SetNX key "locked" EX RedisLockTimeout
acquireRedisLock(l, key, redisOk) ==
    IF ~redisOk THEN [l |-> l, wasSet |-> FALSE, err |-> TRUE]
    ELSE IF key \in l THEN [l |-> l, wasSet |-> FALSE, err |-> FALSE]
    ELSE [l |-> l \cup {key}, wasSet |-> TRUE, err |-> FALSE]

\* releaseRedisLock that reports success without deleting the key.
releaseRedisLock_NoDelete(l, key, redisOk) ==
    IF ~redisOk THEN [l |-> l, released |-> FALSE]
    ELSE [l |-> l, released |-> TRUE]

\* releaseRedisLock that returns whether the Del deleted a key.
releaseRedisLock_TrueIffDeleted(l, key, redisOk) ==
    IF ~redisOk THEN [l |-> l, released |-> FALSE]
    ELSE [l |-> l \ {key}, released |-> key \in l]

\* DEL key; released is the function's return value.
releaseRedisLock(l, key, redisOk) ==
    IF ~redisOk THEN [l |-> l, released |-> FALSE]
    ELSE [l |-> l \ {key}, released |-> TRUE]

\* validatePlayPayload with the bet type checked before the amount.
validatePlayPayload_TypeFirst(payload) ==
    IF payload.betType /= BetTypeLt7 /\ payload.betType /= BetTypeGt7
    THEN "ErrValidationBetType"
    ELSE IF payload.betAmount <= 0 THEN "ErrValidationBetAmount"
    ELSE IF payload.betAmount > MaxBetAmount THEN "ErrValidationBetTooHigh"
    ELSE "nil"

validatePlayPayload(payload) ==
    IF payload.betAmount <= 0 THEN "ErrValidationBetAmount"
    ELSE IF payload.betAmount > MaxBetAmount THEN "ErrValidationBetTooHigh"
    ELSE IF payload.betType /= BetTypeLt7 /\ payload.betType /= BetTypeGt7
    THEN "ErrValidationBetType"
    ELSE "nil"

validationErrorToCode(err) ==
    CASE err = "ErrValidationBetAmount" -> ErrCodeInvalidBet
      [] err = "ErrValidationBetTooHigh" -> ErrCodeBetTooHigh
      [] err = "ErrValidationBetType" -> ErrCodeInvalidBetType
      [] OTHER -> ErrCodeBadRequest

extractClientID(m) ==
    IF m.type \in {MsgTypePlay, MsgTypeGetBalance, MsgTypeEndPlay}
       /\ m.payloadOk
    THEN [id |-> m.clientId, err |-> FALSE]
    ELSE [id |-> "", err |-> TRUE]

\* The check every handler makes of the payload's clientId against the
\* connection's.
ClientIDMismatch(clientID, payload) ==
    clientID = "" \/ payload.clientId /= clientID

\* --------------------------------------------------------------- positions
\* "read"     blocked in conn.ReadMessage
\* "switch"   at the switch on msg.Type
\* "acquire" .. "release"  inside handlePlay, before the named store call
\* "gb_ensure", "gb_read"  inside handleGetBalance
\* "ep_read"  inside handleEndPlay
\* "done"     the handler has returned; about to read again or to close
\* "closed"   HandleClient has returned and the connection is closed
SelectPcs == {"debit", "refund", "credit"}
TxPcs == {"debit_tx", "refund_tx", "credit_tx"}
BalancePcs == {"bal_loss", "bal_credit_failed"}

\* Positions of handlePlay between its successful SetNX and its Del.
HoldingPcs ==
    {"ensure", "release"} \cup SelectPcs \cup TxPcs \cup BalancePcs

\* The transactions that hold the row lock of userID's wallet.
RowLockHolders(userID) ==
    {k \in Conns : pc[k] \in TxPcs /\ currentClientID[k] = userID}

\* The latest time, in seconds after the SetNX of handlePlay set the key, at
\* which the store call made at position pos returns, by the deadlines of
\* the contexts the calls run under: opCtx, made before the SetNX, for the
\* ensure and the debit; a fresh context for the credit or the refund, which
\* starts when the debit has returned; a fresh context for the balance read,
\* which starts when the debit or the failed credit has returned.
ReturnsBy(pos) ==
    CASE pos \in {"ensure", "debit", "debit_tx"} -> HandlerOpTimeout
      [] pos \in {"credit", "credit_tx", "refund", "refund_tx"} ->
            HandlerOpTimeout + CreditOpTimeout
      [] pos = "bal_loss" -> HandlerOpTimeout + ShortOpTimeout
      [] pos = "bal_credit_failed" ->
            HandlerOpTimeout + CreditOpTimeout + ShortOpTimeout

\* activePlayKey without the clientID: one key for every client.
activePlayKey_OneKey(clientID) == "a"

\* The key of the exclusion lock is RedisKeyPrefixActivePlay + clientID; the
\* model names a key by its clientID.
activePlayKey(clientID) == clientID

Emit(conn, msgs) == out' = [out EXCEPT ![conn] = @ \o msgs]

Goto(conn, pos) == pc' = [pc EXCEPT ![conn] = pos]

Init ==
    /\ wallets = [u \in {} |-> 0]
    /\ locks = {}
    /\ lockSetBy = [key \in Clients |-> 0]
    /\ pc = [k \in Conns |-> "read"]
    /\ currentClientID = [k \in Conns |-> ""]
    /\ msg = [k \in Conns |-> NoMsg]
    /\ out = [k \in Conns |-> <<>>]
    /\ debited = [k \in Conns |-> -1]
    /\ gameResult = [k \in Conns |-> NoResult]
    /\ currentBalance = [k \in Conns |-> 0]

\* ------------------------------------------------------------- HandleClient
\* ReadMessage of a loop that starts its handlers with go: the next message
\* is read while the handler of the last one is still running.
ReadMessage_WhileHandling(conn, inbound) ==
    /\ pc[conn] /= "closed"
    /\ \E m \in inbound :
        /\ m.type = MsgTypePlay =>
              \A u \in DOMAIN wallets : wallets[u] <= MaxBalance
        /\ msg' = [msg EXCEPT ![conn] = m]
        /\ IF m.kind = "nontext"
           THEN /\ Goto(conn, "done")
                /\ UNCHANGED <<out, currentClientID>>
           ELSE IF m.kind = "badenv"
           THEN /\ Emit(conn, <<ErrorPayload(ErrCodeBadRequest)>>)
                /\ Goto(conn, "done")
                /\ UNCHANGED currentClientID
           ELSE LET e == extractClientID(m)
                IN /\ currentClientID' =
                        [currentClientID EXCEPT ![conn] =
                            IF ~e.err /\ e.id /= "" THEN e.id ELSE @]
                   /\ Goto(conn, "switch")
                   /\ UNCHANGED out
    /\ UNCHANGED <<wallets, locks, lockSetBy, debited, gameResult, currentBalance>>

\* conn.ReadMessage returns a message; the envelope is unmarshalled and the
\* connection's client id is taken from the payload.
ReadMessage(conn, inbound) ==
    /\ pc[conn] = "read"
    /\ \E m \in inbound :
        /\ m.type = MsgTypePlay =>
              \A u \in DOMAIN wallets : wallets[u] <= MaxBalance
        /\ msg' = [msg EXCEPT ![conn] = m]
        /\ IF m.kind = "nontext"
           THEN /\ Goto(conn, "done")
                /\ UNCHANGED <<out, currentClientID>>
           ELSE IF m.kind = "badenv"
           THEN /\ Emit(conn, <<ErrorPayload(ErrCodeBadRequest)>>)
                /\ Goto(conn, "done")
                /\ UNCHANGED currentClientID
           ELSE LET e == extractClientID(m)
                IN /\ currentClientID' =
                        [currentClientID EXCEPT ![conn] =
                            IF ~e.err /\ e.id /= "" THEN e.id ELSE @]
                   /\ Goto(conn, "switch")
                   /\ UNCHANGED out
    /\ UNCHANGED <<wallets, locks, lockSetBy, debited, gameResult, currentBalance>>

\* conn.ReadMessage returns an error: the loop breaks and the deferred
\* conn.Close() runs.
ReadError(conn) ==
    /\ pc[conn] = "read"
    /\ Goto(conn, "closed")
    /\ currentClientID' = [currentClientID EXCEPT ![conn] = ""]
    /\ UNCHANGED <<wallets, locks, lockSetBy, msg, out, debited, gameResult,
                   currentBalance>>

\* HandleUnknown that logs the unknown type and sends nothing.
HandleUnknown_Silent(conn) ==
    /\ pc[conn] = "switch"
    /\ msg[conn].type \notin {MsgTypePlay, MsgTypeGetBalance, MsgTypeEndPlay}
    /\ Goto(conn, "done")
    /\ UNCHANGED <<wallets, locks, lockSetBy, currentClientID, msg, out,
                   debited, gameResult, currentBalance>>

\* HandleUnknown that forgets the connection's client id.
HandleUnknown_Unbinds(conn) ==
    /\ pc[conn] = "switch"
    /\ msg[conn].type \notin {MsgTypePlay, MsgTypeGetBalance, MsgTypeEndPlay}
    /\ Emit(conn, <<ErrorPayload(ErrCodeUnknownType)>>)
    /\ Goto(conn, "done")
    /\ currentClientID' = [currentClientID EXCEPT ![conn] = ""]
    /\ UNCHANGED <<wallets, locks, lockSetBy, msg, debited, gameResult, currentBalance>>

\* default: of the switch.
HandleUnknown(conn) ==
    /\ pc[conn] = "switch"
    /\ msg[conn].type \notin {MsgTypePlay, MsgTypeGetBalance, MsgTypeEndPlay}
    /\ Emit(conn, <<ErrorPayload(ErrCodeUnknownType)>>)
    /\ Goto(conn, "done")
    /\ UNCHANGED <<wallets, locks, lockSetBy, currentClientID, msg, debited, gameResult,
                   currentBalance>>

\* LoopBack that reads on after end_play.
LoopBack_ReadsOn(conn) ==
    /\ pc[conn] = "done"
    /\ Goto(conn, "read")
    /\ msg' = [msg EXCEPT ![conn] = NoMsg]
    /\ out' = [out EXCEPT ![conn] = <<>>]
    /\ debited' = [debited EXCEPT ![conn] = -1]
    /\ gameResult' = [gameResult EXCEPT ![conn] = NoResult]
    /\ currentBalance' = [currentBalance EXCEPT ![conn] = 0]
    /\ UNCHANGED <<wallets, locks, lockSetBy, currentClientID>>

\* LoopBack of a loop that gives up the connection after a handler that
\* reported INTERNAL_ERROR.
LoopBack_ClosesOnError(conn) ==
    /\ pc[conn] = "done"
    /\ IF \/ msg[conn].kind = "text" /\ msg[conn].type = MsgTypeEndPlay
          \/ \E i \in 1..Len(out[conn]) :
                out[conn][i] = ErrorPayload(ErrCodeInternalError)
       THEN /\ Goto(conn, "closed")
            /\ currentClientID' = [currentClientID EXCEPT ![conn] = ""]
            /\ UNCHANGED msg
       ELSE /\ Goto(conn, "read")
            /\ msg' = [msg EXCEPT ![conn] = NoMsg]
            /\ UNCHANGED currentClientID
    /\ out' = [out EXCEPT ![conn] = <<>>]
    /\ debited' = [debited EXCEPT ![conn] = -1]
    /\ gameResult' = [gameResult EXCEPT ![conn] = NoResult]
    /\ currentBalance' = [currentBalance EXCEPT ![conn] = 0]
    /\ UNCHANGED <<wallets, locks, lockSetBy>>

\* The handler has returned: after end_play HandleClient returns and the
\* connection is closed (msg then stays the end_play that closed it),
\* otherwise the loop calls ReadMessage again.
LoopBack(conn) ==
    /\ pc[conn] = "done"
    /\ IF msg[conn].kind = "text" /\ msg[conn].type = MsgTypeEndPlay
       THEN /\ Goto(conn, "closed")
            /\ currentClientID' = [currentClientID EXCEPT ![conn] = ""]
            /\ UNCHANGED msg
       ELSE /\ Goto(conn, "read")
            /\ msg' = [msg EXCEPT ![conn] = NoMsg]
            /\ UNCHANGED currentClientID
    /\ out' = [out EXCEPT ![conn] = <<>>]
    /\ debited' = [debited EXCEPT ![conn] = -1]
    /\ gameResult' = [gameResult EXCEPT ![conn] = NoResult]
    /\ currentBalance' = [currentBalance EXCEPT ![conn] = 0]
    /\ UNCHANGED <<wallets, locks, lockSetBy>>

\* --------------------------------------------------------------- handlePlay
\* handlePlay up to the call of acquireRedisLock.
HandlePlay(conn) ==
    /\ pc[conn] = "switch"
    /\ msg[conn].type = MsgTypePlay
    /\ LET payload == msg[conn]
           clientID == currentClientID[conn]
       IN IF ~payload.payloadOk
          THEN /\ Emit(conn, <<ErrorPayload(ErrCodeBadRequest)>>)
               /\ Goto(conn, "done")
          ELSE IF ClientIDMismatch(clientID, payload)
          THEN /\ Emit(conn, <<ErrorPayload(ErrCodeBadRequest)>>)
               /\ Goto(conn, "done")
          ELSE IF validatePlayPayload(payload) /= "nil"
          THEN /\ Emit(conn, <<ErrorPayload(
                        validationErrorToCode(validatePlayPayload(payload)))>>)
               /\ Goto(conn, "done")
          ELSE /\ Goto(conn, "acquire")
               /\ UNCHANGED out
    /\ UNCHANGED <<wallets, locks, lockSetBy, currentClientID, msg, debited, gameResult,
                   currentBalance>>

\* AcquireLockReply of a handlePlay that registers its deferred release
\* before it looks at the result of the SetNX, and releases whatever it was.
AcquireLockReply_ReleasesAlways(conn, redisOk) ==
    LET r == acquireRedisLock(locks, activePlayKey(currentClientID[conn]),
                              redisOk)
    IN /\ locks' = r.l
       /\ lockSetBy' =
            IF r.wasSet
            THEN [lockSetBy EXCEPT
                    ![activePlayKey(currentClientID[conn])] = conn]
            ELSE lockSetBy
       /\ IF r.err
          THEN /\ Emit(conn, <<ErrorPayload(ErrCodeInternalError)>>)
               /\ Goto(conn, "release")
          ELSE IF ~r.wasSet
          THEN /\ Emit(conn, <<ErrorPayload(ErrCodeActivePlayExists)>>)
               /\ Goto(conn, "release")
          ELSE /\ Goto(conn, "ensure")
               /\ UNCHANGED out

\* acquireRedisLock returns and handlePlay acts on it; redisOk is whether
\* the lock store answered the SetNX.
AcquireLockReply(conn, redisOk) ==
    LET r == acquireRedisLock(locks, activePlayKey(currentClientID[conn]),
                              redisOk)
    IN /\ locks' = r.l
       /\ lockSetBy' =
            IF r.wasSet
            THEN [lockSetBy EXCEPT
                    ![activePlayKey(currentClientID[conn])] = conn]
            ELSE lockSetBy
       /\ IF r.err
          THEN /\ Emit(conn, <<ErrorPayload(ErrCodeInternalError)>>)
               /\ Goto(conn, "done")
          ELSE IF ~r.wasSet
          THEN /\ Emit(conn, <<ErrorPayload(ErrCodeActivePlayExists)>>)
               /\ Goto(conn, "done")
          ELSE /\ Goto(conn, "ensure")
               /\ UNCHANGED out

AcquireLock(conn) ==
    /\ pc[conn] = "acquire"
    /\ \E redisOk \in BOOLEAN : AcquireLockReply(conn, redisOk)
    /\ UNCHANGED <<wallets, currentClientID, msg, debited, gameResult,
                   currentBalance>>

\* EnsureWalletExists inside handlePlay.
EnsureWallet(conn) ==
    /\ pc[conn] = "ensure"
    /\ \E dbOk \in BOOLEAN :
        IF ~dbOk
        THEN /\ Emit(conn, <<ErrorPayload(ErrCodeInternalError)>>)
             /\ Goto(conn, "release")
             /\ UNCHANGED wallets
        ELSE /\ wallets' = EnsureWalletExists(wallets, currentClientID[conn])
             /\ Goto(conn, "debit")
             /\ UNCHANGED out
    /\ UNCHANGED <<locks, lockSetBy, currentClientID, msg, debited, gameResult,
                   currentBalance>>

\* The amountChange of the UpdateBalance call handlePlay is at.
AmountChange(conn) ==
    CASE pc[conn] \in {"debit", "debit_tx"} -> 0 - msg[conn].betAmount
      [] pc[conn] \in {"refund", "refund_tx"} -> msg[conn].betAmount
      [] pc[conn] \in {"credit", "credit_tx"} ->
            msg[conn].betAmount + gameResult[conn].Winnings

\* RoundMessages with the balance_update sent ahead of the play_result.
RoundMessages_BalanceFirst(conn, finalBalance) ==
    (IF finalBalance >= 0
     THEN <<BalanceUpdatePayload(currentClientID[conn], finalBalance)>>
     ELSE <<>>)
    \o <<PlayResultPayload(currentClientID[conn], gameResult[conn],
                           msg[conn].betAmount)>>

\* The messages that end a resolved round: play_result, then balance_update
\* if finalBalance >= 0.
RoundMessages(conn, finalBalance) ==
    <<PlayResultPayload(currentClientID[conn], gameResult[conn],
                        msg[conn].betAmount)>>
    \o (IF finalBalance >= 0
        THEN <<BalanceUpdatePayload(currentClientID[conn], finalBalance)>>
        ELSE <<>>)

\* AfterDebit that follows the error of a failed debit with a
\* balance_update of the balance UpdateBalance returned.
AfterDebit_ReportsBalance(conn, ret, rolls) ==
    IF ret.err /= "nil"
    THEN /\ Emit(conn, <<ErrorPayload(
                 IF ret.err = "ErrInsufficientFunds"
                 THEN ErrCodeInsufficientFunds ELSE ErrCodeInternalError),
                 BalanceUpdatePayload(currentClientID[conn],
                                      ret.newBalance)>>)
         /\ Goto(conn, "release")
         /\ UNCHANGED <<debited, gameResult>>
    ELSE \E roll \in rolls :
           LET r == GameSvcPlayRound(msg[conn].betType, msg[conn].betAmount,
                                     roll)
           IN /\ debited' = [debited EXCEPT ![conn] = ret.newBalance]
              /\ IF r.err
                 THEN /\ Emit(conn, <<ErrorPayload(ErrCodeInternalError)>>)
                      /\ Goto(conn, "refund")
                      /\ UNCHANGED gameResult
                 ELSE /\ gameResult' = [gameResult EXCEPT ![conn] = r]
                      /\ Goto(conn, IF r.Winnings > 0 THEN "credit"
                                    ELSE "bal_loss")
                      /\ UNCHANGED out

\* AfterDebit that reports every failed debit as INTERNAL_ERROR.
AfterDebit_AllInternal(conn, ret, rolls) ==
    IF ret.err /= "nil"
    THEN /\ Emit(conn, <<ErrorPayload(ErrCodeInternalError)>>)
         /\ Goto(conn, "release")
         /\ UNCHANGED <<debited, gameResult>>
    ELSE \E roll \in rolls :
           LET r == GameSvcPlayRound(msg[conn].betType, msg[conn].betAmount,
                                     roll)
           IN /\ debited' = [debited EXCEPT ![conn] = ret.newBalance]
              /\ gameResult' = [gameResult EXCEPT ![conn] = r]
              /\ Goto(conn, IF r.Winnings > 0 THEN "credit" ELSE "bal_loss")
              /\ UNCHANGED out

\* AfterDebit that returns after a failed PlayRound without the refund.
AfterDebit_NoRefund(conn, ret, rolls) ==
    IF ret.err /= "nil"
    THEN /\ Emit(conn, <<ErrorPayload(
                 IF ret.err = "ErrInsufficientFunds"
                 THEN ErrCodeInsufficientFunds ELSE ErrCodeInternalError)>>)
         /\ Goto(conn, "release")
         /\ UNCHANGED <<debited, gameResult>>
    ELSE \E roll \in rolls :
           LET r == GameSvcPlayRound(msg[conn].betType, msg[conn].betAmount,
                                     roll)
           IN /\ debited' = [debited EXCEPT ![conn] = ret.newBalance]
              /\ IF r.err
                 THEN /\ Emit(conn, <<ErrorPayload(ErrCodeInternalError)>>)
                      /\ Goto(conn, "release")
                      /\ UNCHANGED gameResult
                 ELSE /\ gameResult' = [gameResult EXCEPT ![conn] = r]
                      /\ Goto(conn, IF r.Winnings > 0 THEN "credit"
                                    ELSE "bal_loss")
                      /\ UNCHANGED out

\* What handlePlay does with the return of the debit: report the error, or
\* play the round and go on to the credit or to the balance read.
AfterDebit(conn, ret, rolls) ==
    IF ret.err /= "nil"
    THEN /\ Emit(conn, <<ErrorPayload(
                 IF ret.err = "ErrInsufficientFunds"
                 THEN ErrCodeInsufficientFunds ELSE ErrCodeInternalError)>>)
         /\ Goto(conn, "release")
         /\ UNCHANGED <<debited, gameResult>>
    ELSE \E roll \in rolls :
           LET r == GameSvcPlayRound(msg[conn].betType, msg[conn].betAmount,
                                     roll)
           IN /\ debited' = [debited EXCEPT ![conn] = ret.newBalance]
              /\ IF r.err
                 THEN /\ Emit(conn, <<ErrorPayload(ErrCodeInternalError)>>)
                      /\ Goto(conn, "refund")
                      /\ UNCHANGED gameResult
                 ELSE /\ gameResult' = [gameResult EXCEPT ![conn] = r]
                      /\ Goto(conn, IF r.Winnings > 0 THEN "credit"
                                    ELSE "bal_loss")
                      /\ UNCHANGED out

\* What handlePlay does with the return of the refund.
AfterRefund(conn, ret) ==
    /\ Goto(conn, "release")
    /\ UNCHANGED <<out, debited, gameResult>>

\* AfterCredit that answers a failed credit by refunding the wager.
AfterCredit_Refunds(conn, ret) ==
    /\ IF ret.err /= "nil"
       THEN /\ Emit(conn, <<ErrorPayload(ErrCodeInternalError)>>)
            /\ Goto(conn, "refund")
       ELSE /\ Emit(conn, RoundMessages(conn, ret.newBalance))
            /\ Goto(conn, "release")
    /\ UNCHANGED <<debited, gameResult>>

\* What handlePlay does with the return of the credit.
AfterCredit(conn, ret) ==
    /\ IF ret.err /= "nil"
       THEN /\ Emit(conn, <<ErrorPayload(ErrCodeInternalError)>>)
            /\ Goto(conn, "bal_credit_failed")
       ELSE /\ Emit(conn, RoundMessages(conn, ret.newBalance))
            /\ Goto(conn, "release")
    /\ UNCHANGED <<debited, gameResult>>

AfterUpdate(conn, ret, rolls) ==
    CASE pc[conn] \in {"debit", "debit_tx"} -> AfterDebit(conn, ret, rolls)
      [] pc[conn] \in {"refund", "refund_tx"} -> AfterRefund(conn, ret)
      [] pc[conn] \in {"credit", "credit_tx"} -> AfterCredit(conn, ret)

\* UpdateSelect without FOR UPDATE: the select does not wait for the row.
UpdateSelect_NoRowLock(conn, rolls) ==
    /\ pc[conn] \in SelectPcs
    /\ \E dbOk \in BOOLEAN :
        LET userID == currentClientID[conn]
            s == UpdateBalanceSelect(wallets, userID, dbOk)
        IN IF s.locked
           THEN /\ currentBalance' =
                        [currentBalance EXCEPT ![conn] = s.currentBalance]
                /\ Goto(conn, CASE pc[conn] = "debit" -> "debit_tx"
                                [] pc[conn] = "refund" -> "refund_tx"
                                [] pc[conn] = "credit" -> "credit_tx")
                /\ UNCHANGED <<out, debited, gameResult>>
           ELSE /\ AfterUpdate(conn, s.ret, rolls)
                /\ UNCHANGED currentBalance
    /\ UNCHANGED <<wallets, locks, lockSetBy, currentClientID, msg>>

\* UpdateBalance: Begin and SELECT ... FOR UPDATE.  The select waits while
\* another transaction holds the row lock.
UpdateSelect(conn, rolls) ==
    /\ pc[conn] \in SelectPcs
    /\ \E dbOk \in BOOLEAN :
        LET userID == currentClientID[conn]
            s == UpdateBalanceSelect(wallets, userID, dbOk)
        IN IF s.locked
           THEN /\ RowLockHolders(userID) = {}
                /\ currentBalance' =
                        [currentBalance EXCEPT ![conn] = s.currentBalance]
                /\ Goto(conn, CASE pc[conn] = "debit" -> "debit_tx"
                                [] pc[conn] = "refund" -> "refund_tx"
                                [] pc[conn] = "credit" -> "credit_tx")
                /\ UNCHANGED <<out, debited, gameResult>>
           ELSE /\ AfterUpdate(conn, s.ret, rolls)
                /\ UNCHANGED currentBalance
    /\ UNCHANGED <<wallets, locks, lockSetBy, currentClientID, msg>>

\* UpdateBalance: the funds check, the UPDATE and the commit.
UpdateCommit(conn, rolls) ==
    /\ pc[conn] \in TxPcs
    /\ \E dbOk \in BOOLEAN :
        LET c == UpdateBalanceCommit(wallets, currentClientID[conn],
                                     currentBalance[conn], AmountChange(conn),
                                     dbOk)
        IN /\ wallets' = c.w
           /\ AfterUpdate(conn, c.ret, rolls)
    /\ currentBalance' = [currentBalance EXCEPT ![conn] = 0]
    /\ UNCHANGED <<locks, lockSetBy, currentClientID, msg>>

\* GetBalance after a lost round or after a failed credit, and the messages
\* of the round.
BalanceAfterPlay(conn) ==
    /\ pc[conn] \in BalancePcs
    /\ \E dbOk \in BOOLEAN :
        LET b == GetBalance(wallets, currentClientID[conn], dbOk)
        IN IF pc[conn] = "bal_credit_failed"
           THEN Emit(conn, RoundMessages(conn, b.balance))
           ELSE IF b.err /= "nil"
           THEN Emit(conn, <<ErrorPayload(ErrCodeInternalError)>>
                           \o RoundMessages(conn, -1))
           ELSE Emit(conn, RoundMessages(conn, b.balance))
    /\ Goto(conn, "release")
    /\ UNCHANGED <<wallets, locks, lockSetBy, currentClientID, msg, debited, gameResult,
                   currentBalance>>

\* The deferred function of handlePlay: releaseRedisLock, then the return.
ReleaseLockReply(conn, redisOk) ==
    LET r == releaseRedisLock(locks, activePlayKey(currentClientID[conn]),
                              redisOk)
    IN /\ locks' = r.l
       /\ lockSetBy' =
            [key \in Clients |-> IF key \in r.l THEN lockSetBy[key] ELSE 0]
       /\ IF ~r.released
          THEN Emit(conn, <<ErrorPayload(ErrCodeFailedLockRelease)>>)
          ELSE UNCHANGED out

ReleaseLock(conn) ==
    /\ pc[conn] = "release"
    /\ \E redisOk \in BOOLEAN : ReleaseLockReply(conn, redisOk)
    /\ Goto(conn, "done")
    /\ UNCHANGED <<wallets, currentClientID, msg, debited, gameResult,
                   currentBalance>>

\* --------------------------------------------------------- handleGetBalance
\* HandleGetBalance that turns the request away while the key of its client
\* exists.
HandleGetBalance_ChecksLock(conn) ==
    /\ pc[conn] = "switch"
    /\ msg[conn].type = MsgTypeGetBalance
    /\ IF ~msg[conn].payloadOk
          \/ ClientIDMismatch(currentClientID[conn], msg[conn])
       THEN /\ Emit(conn, <<ErrorPayload(ErrCodeBadRequest)>>)
            /\ Goto(conn, "done")
       ELSE IF activePlayKey(currentClientID[conn]) \in locks
       THEN /\ Emit(conn, <<ErrorPayload(ErrCodeActivePlayExists)>>)
            /\ Goto(conn, "done")
       ELSE /\ Goto(conn, "gb_ensure")
            /\ UNCHANGED out
    /\ UNCHANGED <<wallets, locks, lockSetBy, currentClientID, msg, debited, gameResult,
                   currentBalance>>

\* handleGetBalance up to the call of EnsureWalletExists.
HandleGetBalance(conn) ==
    /\ pc[conn] = "switch"
    /\ msg[conn].type = MsgTypeGetBalance
    /\ IF ~msg[conn].payloadOk
          \/ ClientIDMismatch(currentClientID[conn], msg[conn])
       THEN /\ Emit(conn, <<ErrorPayload(ErrCodeBadRequest)>>)
            /\ Goto(conn, "done")
       ELSE /\ Goto(conn, "gb_ensure")
            /\ UNCHANGED out
    /\ UNCHANGED <<wallets, locks, lockSetBy, currentClientID, msg, debited, gameResult,
                   currentBalance>>

\* EnsureWalletExists inside handleGetBalance.
GetBalanceEnsure(conn) ==
    /\ pc[conn] = "gb_ensure"
    /\ \E dbOk \in BOOLEAN :
        IF ~dbOk
        THEN /\ Emit(conn, <<ErrorPayload(ErrCodeInternalError)>>)
             /\ Goto(conn, "done")
             /\ UNCHANGED wallets
        ELSE /\ wallets' = EnsureWalletExists(wallets, currentClientID[conn])
             /\ Goto(conn, "gb_read")
             /\ UNCHANGED out
    /\ UNCHANGED <<locks, lockSetBy, currentClientID, msg, debited, gameResult,
                   currentBalance>>

\* GetBalance inside handleGetBalance, and the balance_update.
GetBalanceRead(conn) ==
    /\ pc[conn] = "gb_read"
    /\ \E dbOk \in BOOLEAN :
        LET b == GetBalance(wallets, currentClientID[conn], dbOk)
        IN IF b.err /= "nil"
           THEN Emit(conn, <<ErrorPayload(ErrCodeInternalError)>>)
           ELSE Emit(conn, <<BalanceUpdatePayload(currentClientID[conn],
                                                  b.balance)>>)
    /\ Goto(conn, "done")
    /\ UNCHANGED <<wallets, locks, lockSetBy, currentClientID, msg, debited, gameResult,
                   currentBalance>>

\* ------------------------------------------------------------ handleEndPlay
\* HandleEndPlay that returns after the BAD_REQUEST, as the other two
\* handlers do.
HandleEndPlay_ReturnsOnBadRequest(conn) ==
    /\ pc[conn] = "switch"
    /\ msg[conn].type = MsgTypeEndPlay
    /\ IF ~msg[conn].payloadOk
          \/ ClientIDMismatch(currentClientID[conn], msg[conn])
       THEN /\ Emit(conn, <<ErrorPayload(ErrCodeBadRequest)>>)
            /\ Goto(conn, "done")
       ELSE /\ Goto(conn, "ep_read")
            /\ UNCHANGED out
    /\ UNCHANGED <<wallets, locks, lockSetBy, currentClientID, msg, debited,
                   gameResult, currentBalance>>

\* handleEndPlay up to the call of GetBalance: a bad payload or client id is
\* reported and the handler goes on.
HandleEndPlay(conn) ==
    /\ pc[conn] = "switch"
    /\ msg[conn].type = MsgTypeEndPlay
    /\ IF ~msg[conn].payloadOk
          \/ ClientIDMismatch(currentClientID[conn], msg[conn])
       THEN Emit(conn, <<ErrorPayload(ErrCodeBadRequest)>>)
       ELSE UNCHANGED out
    /\ Goto(conn, "ep_read")
    /\ UNCHANGED <<wallets, locks, lockSetBy, currentClientID, msg, debited, gameResult,
                   currentBalance>>

\* EndPlayRead that reports the 0 GetBalance returns with an error in place
\* of the sentinel.
EndPlayRead_NoSentinel(conn) ==
    /\ pc[conn] = "ep_read"
    /\ \E dbOk \in BOOLEAN :
        LET b == GetBalance(wallets, currentClientID[conn], dbOk)
        IN IF b.err /= "nil"
           THEN Emit(conn, <<ErrorPayload(ErrCodeInternalError),
                             PlayEndedPayload(currentClientID[conn],
                                              b.balance)>>)
           ELSE Emit(conn, <<PlayEndedPayload(currentClientID[conn],
                                              b.balance)>>)
    /\ Goto(conn, "done")
    /\ UNCHANGED <<wallets, locks, lockSetBy, currentClientID, msg, debited, gameResult,
                   currentBalance>>

\* GetBalance inside handleEndPlay, and the play_ended.
EndPlayRead(conn) ==
    /\ pc[conn] = "ep_read"
    /\ \E dbOk \in BOOLEAN :
        LET b == GetBalance(wallets, currentClientID[conn], dbOk)
        IN IF b.err /= "nil"
           THEN Emit(conn, <<ErrorPayload(ErrCodeInternalError),
                             PlayEndedPayload(currentClientID[conn], -1)>>)
           ELSE Emit(conn, <<PlayEndedPayload(currentClientID[conn],
                                              b.balance)>>)
    /\ Goto(conn, "done")
    /\ UNCHANGED <<wallets, locks, lockSetBy, currentClientID, msg, debited, gameResult,
                   currentBalance>>

\* -------------------------------------------------------------- environment
\* ExpireLock for a key set without an expiry: it never goes away.
ExpireLock_NoTTL(key) ==
    /\ FALSE
    /\ key \in locks
    /\ locks' = locks \ {key}
    /\ lockSetBy' = [lockSetBy EXCEPT ![key] = 0]
    /\ UNCHANGED <<wallets, pc, currentClientID, msg, out, debited,
                   gameResult, currentBalance>>

\* The TTL of a lock key (RedisLockTimeout) runs out.
ExpireLock(key) ==
    /\ key \in locks
    /\ locks' = locks \ {key}
    /\ lockSetBy' = [lockSetBy EXCEPT ![key] = 0]
    /\ UNCHANGED <<wallets, pc, currentClientID, msg, out, debited,
                   gameResult, currentBalance>>

\* Two connections served concurrently.
Next ==
    \/ \E conn \in Conns : ReadMessage(conn, SomeInbound)
    \/ \E conn \in Conns : ReadError(conn)
    \/ \E conn \in Conns : HandleUnknown(conn)
    \/ \E conn \in Conns : LoopBack(conn)
    \/ \E conn \in Conns : HandlePlay(conn)
    \/ \E conn \in Conns : AcquireLock(conn)
    \/ \E conn \in Conns : EnsureWallet(conn)
    \/ \E conn \in Conns : UpdateSelect(conn, SomeRolls)
    \/ \E conn \in Conns : UpdateCommit(conn, SomeRolls)
    \/ \E conn \in Conns : BalanceAfterPlay(conn)
    \/ \E conn \in Conns : ReleaseLock(conn)
    \/ \E conn \in Conns : HandleGetBalance(conn)
    \/ \E conn \in Conns : GetBalanceEnsure(conn)
    \/ \E conn \in Conns : GetBalanceRead(conn)
    \/ \E conn \in Conns : HandleEndPlay(conn)
    \/ \E conn \in Conns : EndPlayRead(conn)
    \/ \E key \in Clients : ExpireLock(key)

Spec == Init /\ [][Next]_vars

\* One connection served alone, with every message and every roll.
SoloConns == {1}

SoloNext ==
    \/ \E conn \in SoloConns : ReadMessage(conn, Inbound)
    \/ \E conn \in SoloConns : ReadError(conn)
    \/ \E conn \in SoloConns : HandleUnknown(conn)
    \/ \E conn \in SoloConns : LoopBack(conn)
    \/ \E conn \in SoloConns : HandlePlay(conn)
    \/ \E conn \in SoloConns : AcquireLock(conn)
    \/ \E conn \in SoloConns : EnsureWallet(conn)
    \/ \E conn \in SoloConns : UpdateSelect(conn, AllRolls)
    \/ \E conn \in SoloConns : UpdateCommit(conn, AllRolls)
    \/ \E conn \in SoloConns : BalanceAfterPlay(conn)
    \/ \E conn \in SoloConns : ReleaseLock(conn)
    \/ \E conn \in SoloConns : HandleGetBalance(conn)
    \/ \E conn \in SoloConns : GetBalanceEnsure(conn)
    \/ \E conn \in SoloConns : GetBalanceRead(conn)
    \/ \E conn \in SoloConns : HandleEndPlay(conn)
    \/ \E conn \in SoloConns : EndPlayRead(conn)
    \/ \E key \in Clients : ExpireLock(key)

SoloSpec == Init /\ [][SoloNext]_vars

\* The steps of the worker of conn once ReadMessage has returned: every
\* store call returns within its deadline, so the worker keeps stepping.
WorkerStep(conn) ==
    \/ HandleUnknown(conn)
    \/ LoopBack(conn)
    \/ HandlePlay(conn)
    \/ AcquireLock(conn)
    \/ EnsureWallet(conn)
    \/ UpdateSelect(conn, AllRolls)
    \/ UpdateCommit(conn, AllRolls)
    \/ BalanceAfterPlay(conn)
    \/ ReleaseLock(conn)
    \/ HandleGetBalance(conn)
    \/ GetBalanceEnsure(conn)
    \/ GetBalanceRead(conn)
    \/ HandleEndPlay(conn)
    \/ EndPlayRead(conn)

FairSoloSpec == SoloSpec /\ \A conn \in SoloConns : WF_vars(WorkerStep(conn))

\* SetNX gives every key the expiry RedisLockTimeout, so a key that stays
\* expires: FairSoloSpec with the expiry of every key weakly fair.
FairExpirySpec ==
    FairSoloSpec /\ \A key \in Clients : WF_vars(ExpireLock(key))

\* One connection served alone by a handler whose game service may return
\* an error from PlayRound.
FaultyRolls == SomeRolls \cup {GameSvcError}

FaultyNext ==
    \/ \E conn \in SoloConns : ReadMessage(conn, Inbound)
    \/ \E conn \in SoloConns : ReadError(conn)
    \/ \E conn \in SoloConns : HandleUnknown(conn)
    \/ \E conn \in SoloConns : LoopBack(conn)
    \/ \E conn \in SoloConns : HandlePlay(conn)
    \/ \E conn \in SoloConns : AcquireLock(conn)
    \/ \E conn \in SoloConns : EnsureWallet(conn)
    \/ \E conn \in SoloConns : UpdateSelect(conn, FaultyRolls)
    \/ \E conn \in SoloConns : UpdateCommit(conn, FaultyRolls)
    \/ \E conn \in SoloConns : BalanceAfterPlay(conn)
    \/ \E conn \in SoloConns : ReleaseLock(conn)
    \/ \E conn \in SoloConns : HandleGetBalance(conn)
    \/ \E conn \in SoloConns : GetBalanceEnsure(conn)
    \/ \E conn \in SoloConns : GetBalanceRead(conn)
    \/ \E conn \in SoloConns : HandleEndPlay(conn)
    \/ \E conn \in SoloConns : EndPlayRead(conn)
    \/ \E key \in Clients : ExpireLock(key)

FaultySpec == Init /\ [][FaultyNext]_vars

\* The steps of the worker of conn when PlayRound may return an error.
FaultyWorkerStep(conn) ==
    \/ HandleUnknown(conn)
    \/ LoopBack(conn)
    \/ HandlePlay(conn)
    \/ AcquireLock(conn)
    \/ EnsureWallet(conn)
    \/ UpdateSelect(conn, FaultyRolls)
    \/ UpdateCommit(conn, FaultyRolls)
    \/ BalanceAfterPlay(conn)
    \/ ReleaseLock(conn)
    \/ HandleGetBalance(conn)
    \/ GetBalanceEnsure(conn)
    \/ GetBalanceRead(conn)
    \/ HandleEndPlay(conn)
    \/ EndPlayRead(conn)

\* FaultySpec with every store call returning within its deadline.
FairFaultySpec ==
    FaultySpec /\ \A conn \in SoloConns : WF_vars(FaultyWorkerStep(conn))

\* Two connections served concurrently for two clients: the message of an
\* unknown type, and the well-formed requests of the clients "a" and "b", a
\* play being a wager of the maximum amount on lt7; the rolls are one with
\* a sum below 7 and one above.
CrossRolls == {<<1, 3>>, <<6, 5>>}

CrossInbound ==
    {m \in Inbound :
        \/ m \in UnknownMsgs
        \/ /\ m.type = MsgTypePlay
           /\ m.payloadOk
           /\ m.clientId \in Clients
           /\ m.betAmount = MaxBetAmount
           /\ m.betType = BetTypeLt7
        \/ /\ m.type \in {MsgTypeGetBalance, MsgTypeEndPlay}
           /\ m.payloadOk
           /\ m.clientId \in Clients}

CrossNext ==
    \/ \E conn \in Conns : ReadMessage(conn, CrossInbound)
    \/ \E conn \in Conns : ReadError(conn)
    \/ \E conn \in Conns : HandleUnknown(conn)
    \/ \E conn \in Conns : LoopBack(conn)
    \/ \E conn \in Conns : HandlePlay(conn)
    \/ \E conn \in Conns : AcquireLock(conn)
    \/ \E conn \in Conns : EnsureWallet(conn)
    \/ \E conn \in Conns : UpdateSelect(conn, CrossRolls)
    \/ \E conn \in Conns : UpdateCommit(conn, CrossRolls)
    \/ \E conn \in Conns : BalanceAfterPlay(conn)
    \/ \E conn \in Conns : ReleaseLock(conn)
    \/ \E conn \in Conns : HandleGetBalance(conn)
    \/ \E conn \in Conns : GetBalanceEnsure(conn)
    \/ \E conn \in Conns : GetBalanceRead(conn)
    \/ \E conn \in Conns : HandleEndPlay(conn)
    \/ \E conn \in Conns : EndPlayRead(conn)
    \/ \E key \in Clients : ExpireLock(key)

CrossSpec == Init /\ [][CrossNext]_vars

TypeOK ==
    /\ DOMAIN wallets \subseteq Clients
    /\ \A u \in DOMAIN wallets : wallets[u] \in Int
    /\ locks \subseteq Clients
    /\ lockSetBy \in [Clients -> Conns \cup {0}]
    /\ \A k \in Conns : currentClientID[k] \in ClientIds

\* ------------------------------------------------------------------ claims
IsPlay(conn) == msg[conn].kind = "text" /\ msg[conn].type = MsgTypePlay

\* The connections whose handlePlay for clientID is between its successful
\* SetNX and its Del.
InFlight(clientID) ==
    {k \in Conns : pc[k] \in HoldingPcs /\ currentClientID[k] = clientID}

BalancesNonNegative == \A u \in DOMAIN wallets : wallets[u] >= 0

\* C1: no committed balance is ever negative, and an UpdateBalance that finds
\* balance + amountChange < 0 leaves every committed balance as it was and
\* returns ErrInsufficientFunds, which handlePlay reports as
\* INSUFFICIENT_FUNDS.
C1_NonNegativeBalance ==
    /\ []BalancesNonNegative
    /\ [][\A conn \in Conns :
            (/\ pc[conn] \in TxPcs
             /\ pc'[conn] /= pc[conn]
             /\ wallets[currentClientID[conn]] + AmountChange(conn) < 0)
            => /\ wallets' = wallets
               /\ out'[conn] =
                    out[conn] \o <<ErrorPayload(ErrCodeInsufficientFunds)>>]_vars

\* C1 witness: a debit was refused and the balance is still the 0 it was.
C1_Witness ==
    \E conn \in Conns :
        /\ pc[conn] = "release"
        /\ out[conn] = <<ErrorPayload(ErrCodeInsufficientFunds)>>
        /\ currentClientID[conn] \in DOMAIN wallets
        /\ wallets[currentClientID[conn]] = 0

\* C2: for every clientId at most one handlePlay is between its successful
\* lock acquisition and its lock release, also after the key's TTL has run
\* out under a running handler.
C2_AtMostOneInFlight ==
    \A clientID \in Clients : Cardinality(InFlight(clientID)) <= 1

\* C3: a valid play whose SetNX the lock store answers while the key of its
\* clientId exists is answered at once with ACTIVE_PLAY_EXISTS and nothing
\* else, the handler returns, and no wallet and no lock key is touched.
C3_ActivePlayExists ==
    [][\A conn \in Conns :
        (/\ pc[conn] = "acquire"
         /\ activePlayKey(currentClientID[conn]) \in locks
         /\ AcquireLockReply(conn, TRUE)
         /\ pc'[conn] /= pc[conn])
        => /\ out'[conn] = <<ErrorPayload(ErrCodeActivePlayExists)>>
           /\ pc'[conn] = "done"
           /\ wallets' = wallets
           /\ locks' = locks
           /\ debited'[conn] = -1
           /\ gameResult'[conn] = NoResult]_vars

\* C3 witness: a play was turned away while another handler holds the key.
C3_Witness ==
    \E conn \in Conns :
        /\ pc[conn] = "done"
        /\ IsPlay(conn)
        /\ out[conn] = <<ErrorPayload(ErrCodeActivePlayExists)>>
        /\ activePlayKey(currentClientID[conn]) \in locks
        /\ InFlight(currentClientID[conn]) /= {}

\* C4 as stated: whenever a handlePlay that acquired the lock returns, the
\* key of its clientId does not exist.
C4_NotHeldOnReturn ==
    [][\A conn \in Conns :
        (pc[conn] \in HoldingPcs /\ pc'[conn] \notin HoldingPcs)
        => activePlayKey(currentClientID[conn]) \notin locks']_vars

\* C4 amended: a handlePlay that acquired the lock returns only through its
\* deferred release, and when it returns the key of its clientId does not
\* exist, unless the Del itself failed: then the key is left as it was and
\* FAILED_LOCK_RELEASE is the last message of the round.
C4_NotHeldUnlessDelFails ==
    [][\A conn \in Conns :
        (pc[conn] \in HoldingPcs /\ pc'[conn] \notin HoldingPcs)
        => /\ pc[conn] = "release"
           /\ pc'[conn] = "done"
           /\ \/ /\ activePlayKey(currentClientID[conn]) \notin locks'
                 /\ out'[conn] = out[conn]
              \/ /\ locks' = locks
                 /\ out'[conn] =
                      out[conn] \o <<ErrorPayload(ErrCodeFailedLockRelease)>>]_vars

\* C4 witness: a round that failed at its debit has returned, its key is
\* gone and no release failure was reported.
C4_Witness ==
    \E conn \in Conns :
        /\ pc[conn] = "done"
        /\ IsPlay(conn)
        /\ out[conn] = <<ErrorPayload(ErrCodeInternalError)>>
        /\ currentClientID[conn] \in DOMAIN wallets
        /\ activePlayKey(currentClientID[conn]) \notin locks

\* C5: a round with wager A on a balance B >= A whose store calls all
\* succeed leaves the committed balance at B + A on a win and at B - A on a
\* loss, and its balance_update carries that value.  B is the balance the
\* debit found: what the debit returned, plus A.
C5_RoundConservation ==
    [][\A conn \in Conns :
        (/\ pc[conn] \in {"credit_tx", "bal_loss"}
         /\ pc'[conn] = "release"
         /\ Len(out'[conn]) = 2
         /\ out'[conn][1].type = MsgTypePlayResult)
        => LET A == msg[conn].betAmount
               B == debited[conn] + A
               final == IF gameResult[conn].Outcome = OutcomeWin
                        THEN B + A ELSE B - A
           IN /\ wallets'[currentClientID[conn]] = final
              /\ out'[conn][2] =
                    BalanceUpdatePayload(currentClientID[conn], final)]_vars

\* C6: the result of PlayRound has Sum = Die1 + Die2 with both dice in
\* 1..6; a sum of 7 loses, a sum below 7 wins exactly for lt7, a sum above
\* 7 wins exactly for gt7; the winnings are the amount on a win and 0 on a
\* loss.
C6_RoundOutcome ==
    \A conn \in Conns :
        gameResult[conn] /= NoResult
        => LET r == gameResult[conn]
               betType == msg[conn].betType
               win == r.Outcome = OutcomeWin
           IN /\ r.Die1 \in Die /\ r.Die2 \in Die
              /\ r.Sum = r.Die1 + r.Die2
              /\ r.Outcome \in {OutcomeWin, OutcomeLose}
              /\ betType \in {BetTypeLt7, BetTypeGt7}
              /\ r.Sum = 7 => ~win
              /\ r.Sum < 7 => (win <=> betType = BetTypeLt7)
              /\ r.Sum > 7 => (win <=> betType = BetTypeGt7)
              /\ r.Winnings = IF win THEN msg[conn].betAmount ELSE 0

\* C6 witness: a double six won a gt7 bet of 125.
C6_Witness ==
    \E conn \in Conns :
        /\ gameResult[conn].Die1 = 6 /\ gameResult[conn].Die2 = 6
        /\ msg[conn].betType = BetTypeGt7
        /\ gameResult[conn].Outcome = OutcomeWin
        /\ gameResult[conn].Winnings = 125

\* The requests that carry a clientId.
RequestTypes == {MsgTypePlay, MsgTypeGetBalance, MsgTypeEndPlay}

\* C7: once a connection has a non-empty clientId X, a later play,
\* get_balance or end_play that declares another clientId leaves the
\* connection's clientId at X, is answered BAD_REQUEST, and changes no
\* wallet and no lock key.
C7_MismatchRejected ==
    [][\A conn \in Conns :
        /\ (/\ pc[conn] = "read" /\ pc'[conn] = "switch"
            /\ currentClientID[conn] /= ""
            /\ msg'[conn].type \in RequestTypes
            /\ msg'[conn].payloadOk
            /\ msg'[conn].clientId /= currentClientID[conn])
           => currentClientID'[conn] = currentClientID[conn]
        /\ (/\ pc[conn] = "switch" /\ pc'[conn] /= "switch"
            /\ msg[conn].type \in RequestTypes
            /\ msg[conn].payloadOk
            /\ msg[conn].clientId /= currentClientID[conn])
           => /\ out'[conn] = <<ErrorPayload(ErrCodeBadRequest)>>
              /\ currentClientID'[conn] = currentClientID[conn]
              /\ wallets' = wallets
              /\ locks' = locks]_vars

\* C8: a play with a well-formed payload and the connection's clientId is
\* answered INVALID_BET if betAmount <= 0, else BET_TOO_HIGH if betAmount
\* exceeds the maximum, else INVALID_BET_TYPE if betType is neither lt7 nor
\* gt7; that error is the only message, the handler returns, and no lock
\* key and no wallet is created or changed.
C8_ValidationErrors ==
    [][\A conn \in Conns :
        (/\ pc[conn] = "switch" /\ pc'[conn] /= "switch"
         /\ IsPlay(conn)
         /\ msg[conn].payloadOk
         /\ currentClientID[conn] /= ""
         /\ msg[conn].clientId = currentClientID[conn])
        => LET m == msg[conn]
               code == IF m.betAmount <= 0 THEN ErrCodeInvalidBet
                       ELSE IF m.betAmount > MaxBetAmount THEN ErrCodeBetTooHigh
                       ELSE IF m.betType \notin {BetTypeLt7, BetTypeGt7}
                       THEN ErrCodeInvalidBetType
                       ELSE "none"
           IN code /= "none"
              => /\ out'[conn] = <<ErrorPayload(code)>>
                 /\ pc'[conn] = "done"
                 /\ wallets' = wallets
                 /\ locks' = locks]_vars

\* C8 witness: a play of amount 0 and an unknown bet type was answered
\* INVALID_BET.
C8_Witness ==
    \E conn \in Conns :
        /\ pc[conn] = "done"
        /\ IsPlay(conn)
        /\ msg[conn].betAmount = 0
        /\ msg[conn].betType = "eq7"
        /\ out[conn] = <<ErrorPayload(ErrCodeInvalidBet)>>

\* The debit of conn finds a committed balance below the wager.
DebitRefused(conn) ==
    /\ pc[conn] = "debit_tx"
    /\ pc'[conn] /= pc[conn]
    /\ wallets[currentClientID[conn]] < msg[conn].betAmount

\* What C9 says of the refused debit itself: INSUFFICIENT_FUNDS is the only
\* message, the balance stays, no dice are rolled, the release comes next.
RefusedDebitReported(conn) ==
    /\ out'[conn] = <<ErrorPayload(ErrCodeInsufficientFunds)>>
    /\ wallets' = wallets
    /\ gameResult'[conn] = NoResult
    /\ pc'[conn] = "release"

\* The handler returns from a round whose debit was refused.
RefusedRoundReturns(conn) ==
    /\ pc[conn] = "release"
    /\ pc'[conn] = "done"
    /\ out[conn] = <<ErrorPayload(ErrCodeInsufficientFunds)>>

\* C9 as stated: a valid play with wager A on a balance B < A is answered
\* with exactly INSUFFICIENT_FUNDS, the balance stays B, no dice are rolled,
\* no play_result or balance_update is emitted, and the lock of the round is
\* released before the handler returns.
C9_InsufficientFunds ==
    [][\A conn \in Conns :
        /\ DebitRefused(conn) => RefusedDebitReported(conn)
        /\ RefusedRoundReturns(conn)
           => /\ out'[conn] = <<ErrorPayload(ErrCodeInsufficientFunds)>>
              /\ wallets' = wallets
              /\ activePlayKey(currentClientID[conn]) \notin locks']_vars

\* C9 amended: as stated, except that when the Del of the release fails the
\* key is left as it was and FAILED_LOCK_RELEASE follows INSUFFICIENT_FUNDS.
C9_InsufficientFundsUnlessDelFails ==
    [][\A conn \in Conns :
        /\ DebitRefused(conn) => RefusedDebitReported(conn)
        /\ RefusedRoundReturns(conn)
           => /\ wallets' = wallets
              /\ \/ /\ out'[conn] = <<ErrorPayload(ErrCodeInsufficientFunds)>>
                    /\ activePlayKey(currentClientID[conn]) \notin locks'
                 \/ /\ out'[conn] =
                         <<ErrorPayload(ErrCodeInsufficientFunds),
                           ErrorPayload(ErrCodeFailedLockRelease)>>
                    /\ locks' = locks]_vars

\* C9 witness: a play on balance 0 has returned with INSUFFICIENT_FUNDS
\* alone, the balance still 0 and the key gone.
C9_Witness ==
    \E conn \in Conns :
        /\ pc[conn] = "done"
        /\ IsPlay(conn)
        /\ out[conn] = <<ErrorPayload(ErrCodeInsufficientFunds)>>
        /\ wallets[currentClientID[conn]] = 0
        /\ activePlayKey(currentClientID[conn]) \notin locks

IsEndPlay(conn) == msg[conn].kind = "text" /\ msg[conn].type = MsgTypeEndPlay

\* C10: once end_play has been read, the worker only goes on through
\* handleEndPlay to its return and to the close of the connection, whatever
\* the payload and whether or not the balance can be read, and does reach
\* the close; a closed connection stays closed and handles nothing more.
C10_EndPlayCloses ==
    /\ [][\A conn \in Conns :
            /\ (IsEndPlay(conn) /\ pc'[conn] /= pc[conn])
               => <<pc[conn], pc'[conn]>> \in
                     {<<"switch", "ep_read">>, <<"ep_read", "done">>,
                      <<"done", "closed">>}
            /\ pc[conn] = "closed"
               => /\ pc'[conn] = "closed"
                  /\ msg'[conn] = msg[conn]
                  /\ out'[conn] = out[conn]
                  /\ wallets' = wallets]_vars
    /\ \A conn \in SoloConns :
            (IsEndPlay(conn) /\ pc[conn] = "switch") ~> (pc[conn] = "closed")

\* C10 witness: a connection is closed after an end_play whose payload did
\* not parse.
C10_Witness ==
    \E conn \in Conns :
        /\ pc[conn] = "closed"
        /\ IsEndPlay(conn)
        /\ ~msg[conn].payloadOk

\* The positions in msgs of the play_ended messages.
PlayEndedIn(msgs) == {i \in 1..Len(msgs) : msgs[i].type = MsgTypePlayEnded}

\* C11: an end_play emits exactly one play_ended, as its last message, and
\* no other request emits one; its finalBalance is the committed balance of
\* the connection's client at the read, or -1, after INTERNAL_ERROR, when the
\* read fails or the client has no wallet.
C11_PlayEndedBalance ==
    /\ [](\A conn \in Conns :
            Cardinality(PlayEndedIn(out[conn])) =
                IF pc[conn] = "done" /\ IsEndPlay(conn) THEN 1 ELSE 0)
    /\ [][\A conn \in Conns :
            (pc[conn] = "ep_read" /\ pc'[conn] /= pc[conn])
            => LET cid == currentClientID[conn]
                   ended(b) == PlayEndedPayload(cid, b)
               IN \/ /\ cid \in DOMAIN wallets
                     /\ out'[conn] = out[conn] \o <<ended(wallets[cid])>>
                  \/ out'[conn] =
                        out[conn] \o <<ErrorPayload(ErrCodeInternalError),
                                       ended(-1)>>]_vars

\* C11 witness: an end_play after a won round was answered with the
\* balance 750 alone.
C11_Witness ==
    \E conn \in Conns :
        /\ pc[conn] = "done"
        /\ IsEndPlay(conn)
        /\ out[conn] = <<PlayEndedPayload("a", 750)>>
        /\ wallets["a"] = 750

\* The EnsureWalletExists that conn is calling returns nil.
EnsureSucceeds(conn) ==
    \/ pc[conn] = "ensure" /\ pc'[conn] = "debit"
    \/ pc[conn] = "gb_ensure" /\ pc'[conn] = "gb_read"

\* C12: an EnsureWalletExists, of handlePlay or of handleGetBalance and in
\* any interleaving, leaves every existing balance as it is and creates the
\* missing wallet of its client with the default balance 500; between the
\* ensure and the read of a get_balance the balance changes only by the
\* commit of another connection's UpdateBalance, and the read reports the
\* committed balance in a balance_update: 500 for a fresh client.
C12_EnsureIdempotent ==
    [][\A conn \in Conns :
        LET cid == currentClientID[conn]
        IN /\ (pc[conn] \in {"ensure", "gb_ensure"} /\ pc'[conn] /= pc[conn])
              => /\ \A u \in DOMAIN wallets :
                        u \in DOMAIN wallets' /\ wallets'[u] = wallets[u]
                 /\ IF EnsureSucceeds(conn)
                    THEN /\ DOMAIN wallets' = DOMAIN wallets \cup {cid}
                         /\ wallets'[cid] =
                               IF cid \in DOMAIN wallets THEN wallets[cid]
                               ELSE DefaultInitialBalance
                    ELSE wallets' = wallets
           /\ (pc[conn] = "gb_read" /\ wallets' /= wallets)
              => \E k \in Conns \ {conn} : pc[k] \in TxPcs /\ pc'[k] /= pc[k]
           /\ (pc[conn] = "gb_read" /\ pc'[conn] /= pc[conn])
              => /\ cid \in DOMAIN wallets
                 /\ out'[conn] \in
                       {<<BalanceUpdatePayload(cid, wallets[cid])>>,
                        <<ErrorPayload(ErrCodeInternalError)>>}]_vars

\* C12 witness: the get_balance of a fresh client, the only wallet there is,
\* was answered with the balance 500.
C12_Witness ==
    \E conn \in Conns :
        /\ pc[conn] = "done"
        /\ msg[conn].type = MsgTypeGetBalance
        /\ DOMAIN wallets = {currentClientID[conn]}
        /\ out[conn] = <<BalanceUpdatePayload(currentClientID[conn],
                                             DefaultInitialBalance)>>

\* The UpdateBalance transaction of conn ends in this step.
TxEnds(conn) == pc[conn] \in TxPcs /\ pc'[conn] /= pc[conn]

\* C13: UpdateBalance calls for one clientId serialize on the row lock, also
\* while two handlers are in flight for it: at most one transaction holds
\* the row and the balance it read is still the committed one, so that a
\* commit adds exactly its amountChange to the committed balance (no lost
\* update) and returns the balance it committed; a committed balance
\* changes in no other way.
C13_AdjustsSerialize ==
    /\ [](\A u \in Clients : Cardinality(RowLockHolders(u)) <= 1)
    /\ [](\A conn \in Conns :
            pc[conn] \in TxPcs
            => currentBalance[conn] = wallets[currentClientID[conn]])
    /\ [][\A conn \in Conns :
            LET cid == currentClientID[conn]
            IN (TxEnds(conn) /\ wallets' /= wallets)
               => /\ wallets' =
                        [wallets EXCEPT ![cid] = @ + AmountChange(conn)]
                  /\ pc[conn] = "debit_tx" => debited'[conn] = wallets'[cid]
                  /\ pc[conn] = "credit_tx"
                     => out'[conn][Len(out'[conn])] =
                           BalanceUpdatePayload(cid, wallets'[cid])]_vars
    /\ [][\A u \in DOMAIN wallets :
            wallets'[u] /= wallets[u]
            => \E conn \in Conns : TxEnds(conn) /\ currentClientID[conn] = u]_vars

\* C13 witness: two handlers in flight for one client have both committed
\* their debit of 250 on the balance 500: the first got 250, the second 0.
C13_Witness ==
    /\ InFlight("a") = Conns
    /\ "a" \in DOMAIN wallets
    /\ wallets["a"] = 0
    /\ {debited[conn] : conn \in Conns} = {250, 0}

\* The UpdateBalance conn called for its debit or its credit returns an
\* error in this step.
UpdateFails(conn) ==
    \/ pc[conn] \in {"debit", "debit_tx"} /\ pc'[conn] = "release"
    \/ pc[conn] \in {"credit", "credit_tx"} /\ pc'[conn] = "bal_credit_failed"

\* The UpdateBalance conn called for its debit or its credit returns nil in
\* this step.
UpdateSucceeds(conn) ==
    \/ pc[conn] = "debit_tx" /\ pc'[conn] \in {"credit", "bal_loss", "refund"}
    \/ pc[conn] = "credit_tx" /\ pc'[conn] = "release"

\* C14: an UpdateBalance that returns an error, whichever it is, leaves the
\* wallets table as it was: no balance changed, no row created.  The
\* balance of a wallet changes only in a step in which an UpdateBalance for
\* it returns nil, and the select that opens a transaction changes nothing.
C14_AdjustAllOrNothing ==
    [][/\ \A conn \in Conns :
            /\ UpdateFails(conn) => wallets' = wallets
            /\ (pc[conn] \in SelectPcs /\ pc'[conn] /= pc[conn])
               => wallets' = wallets
       /\ \A u \in DOMAIN wallets :
            wallets'[u] /= wallets[u]
            => \E conn \in Conns :
                    UpdateSucceeds(conn) /\ currentClientID[conn] = u]_vars

\* C14 witness: the credit of a won round has returned an error and the
\* balance is the 250 the debit committed.
C14_Witness ==
    \E conn \in Conns :
        /\ pc[conn] = "bal_credit_failed"
        /\ debited[conn] = 250
        /\ wallets[currentClientID[conn]] = 250

\* The UpdateBalance conn called for its credit returns an error in this
\* step.
CreditFails(conn) ==
    /\ pc[conn] \in {"credit", "credit_tx"}
    /\ pc'[conn] \notin {pc[conn], "credit_tx", "release"}

\* conn is in a round whose credit failed: before its balance read, or before
\* its release with the three messages only such a round has sent.
CreditFailedRound(conn) ==
    \/ pc[conn] = "bal_credit_failed"
    \/ /\ pc[conn] = "release"
       /\ Len(out[conn]) = 3
       /\ out[conn][1] = ErrorPayload(ErrCodeInternalError)

\* What C15 says of the failed credit and of the steps that follow it: the
\* handler emits INTERNAL_ERROR and goes on to read the balance, and no step
\* of the round changes a wallet any more, so the debit stands.
CreditFailureStands(conn) ==
    /\ CreditFails(conn)
       => /\ out'[conn] = out[conn] \o <<ErrorPayload(ErrCodeInternalError)>>
          /\ pc'[conn] = "bal_credit_failed"
          /\ wallets' = wallets
    /\ (CreditFailedRound(conn) /\ pc'[conn] /= pc[conn])
       => /\ wallets' = wallets
          /\ pc'[conn] = IF pc[conn] = "release" THEN "done" ELSE "release"

\* C15 as stated: after a failed credit the handler emits INTERNAL_ERROR and
\* mutates the ledger no more, and the lock is released when it returns.
C15_CreditFailure ==
    [][\A conn \in Conns :
        /\ CreditFailureStands(conn)
        /\ (CreditFailedRound(conn) /\ pc'[conn] = "done")
           => activePlayKey(currentClientID[conn]) \notin locks']_vars

\* C15 amended: as stated, except that the Del of the release may fail: then
\* the key is left as it was and FAILED_LOCK_RELEASE is sent last.
C15_CreditFailureUnlessDelFails ==
    [][\A conn \in Conns :
        /\ CreditFailureStands(conn)
        /\ (CreditFailedRound(conn) /\ pc'[conn] = "done")
           => \/ /\ activePlayKey(currentClientID[conn]) \notin locks'
                 /\ out'[conn] = out[conn]
              \/ /\ locks' = locks
                 /\ out'[conn] =
                      out[conn] \o <<ErrorPayload(ErrCodeFailedLockRelease)>>]_vars

\* C15 witness: a round whose credit failed has returned: INTERNAL_ERROR
\* came first, the balance is the 250 the debit left and the key is gone.
C15_Witness ==
    \E conn \in Conns :
        /\ pc[conn] = "done"
        /\ IsPlay(conn)
        /\ Len(out[conn]) = 3
        /\ out[conn][1] = ErrorPayload(ErrCodeInternalError)
        /\ debited[conn] = 250
        /\ wallets[currentClientID[conn]] = 250
        /\ activePlayKey(currentClientID[conn]) \notin locks

\* The debit of conn's round committed and the game service's PlayRound
\* then returned an error.
ResolverFails(conn) ==
    /\ pc[conn] = "debit_tx"
    /\ debited'[conn] >= 0
    /\ gameResult'[conn] = NoResult

\* conn is in a round whose PlayRound failed, before its release.
ResolverFailedRound(conn) ==
    /\ pc[conn] = "release"
    /\ debited[conn] >= 0
    /\ gameResult[conn] = NoResult

\* What C16 says of a failed PlayRound up to the release: INTERNAL_ERROR is
\* emitted and the refund comes next; the refund, when it succeeds, puts the
\* balance back to what it was before the debit, and emits nothing.
ResolverFailureRefunds(conn) ==
    LET cid == currentClientID[conn]
        A == msg[conn].betAmount
    IN /\ ResolverFails(conn)
          => /\ out'[conn] = <<ErrorPayload(ErrCodeInternalError)>>
             /\ pc'[conn] = "refund"
             /\ wallets'[cid] = debited'[conn]
       /\ (pc[conn] \in {"refund", "refund_tx"} /\ pc'[conn] /= pc[conn])
          => /\ pc'[conn] \in {"refund_tx", "release"}
             /\ out'[conn] = out[conn]
             /\ \/ wallets' = wallets
                \/ wallets' = [wallets EXCEPT ![cid] = debited[conn] + A]

\* C16 as stated: after a failed PlayRound the handler credits the wager
\* back, emits INTERNAL_ERROR and no play_result, and the lock is released
\* when it returns.
C16_ResolverFailure ==
    [][\A conn \in SoloConns :
        /\ ResolverFailureRefunds(conn)
        /\ (ResolverFailedRound(conn) /\ pc'[conn] /= pc[conn])
           => /\ out'[conn] = <<ErrorPayload(ErrCodeInternalError)>>
              /\ wallets' = wallets
              /\ activePlayKey(currentClientID[conn]) \notin locks']_vars

\* C16 amended: as stated, except that the Del of the release may fail: then
\* the key is left as it was and FAILED_LOCK_RELEASE follows INTERNAL_ERROR.
C16_ResolverFailureUnlessDelFails ==
    [][\A conn \in SoloConns :
        /\ ResolverFailureRefunds(conn)
        /\ (ResolverFailedRound(conn) /\ pc'[conn] /= pc[conn])
           => /\ wallets' = wallets
              /\ \/ /\ out'[conn] = <<ErrorPayload(ErrCodeInternalError)>>
                    /\ activePlayKey(currentClientID[conn]) \notin locks'
                 \/ /\ out'[conn] =
                         <<ErrorPayload(ErrCodeInternalError),
                           ErrorPayload(ErrCodeFailedLockRelease)>>
                    /\ locks' = locks]_vars

\* C16 witness: a round whose PlayRound failed after a debit to 250 has
\* returned with INTERNAL_ERROR alone, the balance back at 500, the key gone.
C16_Witness ==
    \E conn \in SoloConns :
        /\ pc[conn] = "done"
        /\ IsPlay(conn)
        /\ debited[conn] = 250
        /\ gameResult[conn] = NoResult
        /\ out[conn] = <<ErrorPayload(ErrCodeInternalError)>>
        /\ wallets[currentClientID[conn]] = 500
        /\ activePlayKey(currentClientID[conn]) \notin locks

\* The messages conn sends in this step.
Sent(conn) == SubSeq(out'[conn], Len(out[conn]) + 1, Len(out'[conn]))

\* C17: a balance_update that ends a play round carries a balance the ledger
\* returned, the new balance of the credit or the balance of a successful
\* GetBalance, which is the committed balance of the client; a round whose
\* balance read fails sends no balance_update.
C17_BalanceUpdateFromLedger ==
    [][\A conn \in SoloConns :
        (IsPlay(conn) /\ pc[conn] \in {"credit", "credit_tx"} \cup BalancePcs)
        => \A i \in 1..Len(Sent(conn)) :
              Sent(conn)[i].type = MsgTypeBalanceUpdate
              => Sent(conn)[i].balance = wallets'[currentClientID[conn]]]_vars

\* The message conn is handling has a type the switch does not know.
IsUnknown(conn) ==
    msg[conn].kind = "text" /\ msg[conn].type \notin RequestTypes

\* C18: a message of a type other than play, get_balance and end_play leaves
\* the connection's clientId as it is when it is read, is answered with one
\* error, UNKNOWN_TYPE, without a change to any wallet, any lock key or the
\* clientId, and the loop then reads the next message: the connection is
\* not closed.
C18_UnknownType ==
    [][\A conn \in SoloConns :
        /\ (pc[conn] = "read" /\ pc'[conn] = "switch"
            /\ msg'[conn].type \notin RequestTypes)
           => /\ currentClientID'[conn] = currentClientID[conn]
              /\ wallets' = wallets
              /\ locks' = locks
        /\ (IsUnknown(conn) /\ pc[conn] = "switch" /\ pc'[conn] /= pc[conn])
           => /\ out'[conn] = <<ErrorPayload(ErrCodeUnknownType)>>
              /\ pc'[conn] = "done"
              /\ currentClientID'[conn] = currentClientID[conn]
              /\ wallets' = wallets
              /\ locks' = locks
        /\ (IsUnknown(conn) /\ pc[conn] = "done" /\ pc'[conn] /= pc[conn])
           => /\ pc'[conn] = "read"
              /\ currentClientID'[conn] = currentClientID[conn]
              /\ wallets' = wallets
              /\ locks' = locks]_vars

\* C18 witness: a connection bound to client a has answered a message of an
\* unknown type with UNKNOWN_TYPE and is still bound to a.
C18_Witness ==
    \E conn \in SoloConns :
        /\ pc[conn] = "done"
        /\ IsUnknown(conn)
        /\ out[conn] = <<ErrorPayload(ErrCodeUnknownType)>>
        /\ currentClientID[conn] = "a"
        /\ "a" \in DOMAIN wallets

\* What releaseRedisLock would return to conn, which is about to call it,
\* if the lock store answers the Del (redisOk) or not.
ReleaseOutcome(conn, redisOk) ==
    releaseRedisLock(locks, activePlayKey(currentClientID[conn]), redisOk)

\* C19 as stated: releaseRedisLock returns true exactly when it deleted a
\* key, and false when the key was already gone.
C19_TrueIffDeleted ==
    \A conn \in Conns :
        pc[conn] = "release"
        => \A redisOk \in BOOLEAN :
              LET key == activePlayKey(currentClientID[conn])
                  r == ReleaseOutcome(conn, redisOk)
              IN r.released <=> (key \in locks /\ key \notin r.l)

\* C19 amended: releaseRedisLock returns true exactly when the lock store
\* answered the Del, whether the key was deleted or was already gone, and
\* the key then does not exist; it returns false exactly when the Del failed,
\* and the keys are then as they were.  A release whose Del is answered
\* sends nothing to the client, also when the key had expired; a release
\* whose Del failed sends FAILED_LOCK_RELEASE.
C19_TrueIffDelAnswered ==
    /\ [](\A conn \in Conns :
            pc[conn] = "release"
            => \A redisOk \in BOOLEAN :
                  LET key == activePlayKey(currentClientID[conn])
                      r == ReleaseOutcome(conn, redisOk)
                  IN /\ r.released <=> redisOk
                     /\ r.released => key \notin r.l
                     /\ ~r.released => r.l = locks)
    /\ [][\A conn \in Conns :
            (pc[conn] = "release" /\ pc'[conn] = "done")
            => LET failed == ErrorPayload(ErrCodeFailedLockRelease)
               IN IF locks' = ReleaseOutcome(conn, TRUE).l
                     /\ out'[conn] = out[conn]
                  THEN activePlayKey(currentClientID[conn]) \notin locks'
                  ELSE /\ locks' = ReleaseOutcome(conn, FALSE).l
                       /\ out'[conn] = out[conn] \o <<failed>>]_vars

\* C19 witness: a handler that has sent the result of its round is about to
\* release a key that has already expired.
C19_Witness ==
    \E conn \in Conns :
        /\ pc[conn] = "release"
        /\ Len(out[conn]) = 2
        /\ out[conn][1].type = MsgTypePlayResult
        /\ activePlayKey(currentClientID[conn]) \notin locks

\* C20: the TTL of the key, RedisLockTimeout, is longer than the deadlines
\* of its store calls let a play round take: every store call a handler
\* makes while it holds the key returns before the key can expire, so the
\* release is issued on a key that is still the handler's.
C20_TTLOutlastsRound ==
    \A conn \in SoloConns :
        pc[conn] \in HoldingPcs \ {"release"}
        => ReturnsBy(pc[conn]) < RedisLockTimeout

\* The key of clientID exists and no handlePlay is in flight for it: its
\* holder returned without deleting it.
StaleLock(clientID) ==
    activePlayKey(clientID) \in locks /\ InFlight(clientID) = {}

\* C21: a key whose holder has returned without deleting it goes away by its
\* TTL, so that no client stays locked out: a stale key leads to the key
\* being gone, a play whose SetNX finds no key is not answered
\* ACTIVE_PLAY_EXISTS, and no balance is negative meanwhile.
C21_StaleLockExpires ==
    /\ \A clientID \in Clients :
            StaleLock(clientID) ~> (activePlayKey(clientID) \notin locks)
    /\ [](\A clientID \in Clients :
            StaleLock(clientID) => BalancesNonNegative)
    /\ [][\A conn \in SoloConns :
            (/\ pc[conn] = "acquire"
             /\ pc'[conn] /= pc[conn]
             /\ activePlayKey(currentClientID[conn]) \notin locks)
            => /\ ErrorPayload(ErrCodeActivePlayExists)
                    \notin {out'[conn][i] : i \in 1..Len(out'[conn])}
               /\ pc'[conn] = "ensure"
                  \/ out'[conn] = <<ErrorPayload(ErrCodeInternalError)>>]_vars

\* C21 witness: a play has returned with FAILED_LOCK_RELEASE and its key is
\* left behind with no handler in flight.
C21_Witness ==
    \E conn \in SoloConns :
        /\ pc[conn] = "done"
        /\ IsPlay(conn)
        /\ Len(out[conn]) > 0
        /\ out[conn][Len(out[conn])] = ErrorPayload(ErrCodeFailedLockRelease)
        /\ StaleLock(currentClientID[conn])

\* The positions at which a handler of the connection is running.
HandlerPcs ==
    {"switch", "acquire", "gb_ensure", "gb_read", "ep_read"} \cup HoldingPcs

\* C22: a connection takes up its next message only when the handler of the
\* last one has returned: the message and the client id it works for stay as
\* they are while a handler runs, a handler that holds the lock returns only
\* through its release, what it has sent is kept until it has returned, and
\* the loop reads again only from a returned handler.
C22_OneHandlerAtATime ==
    [][\A conn \in Conns :
        /\ pc[conn] \in HandlerPcs
           => /\ msg'[conn] = msg[conn]
              /\ currentClientID'[conn] = currentClientID[conn]
              /\ pc'[conn] \in HandlerPcs \cup {"done"}
              /\ Len(out'[conn]) >= Len(out[conn])
              /\ SubSeq(out'[conn], 1, Len(out[conn])) = out[conn]
        /\ (pc[conn] \in HoldingPcs /\ pc'[conn] = "done")
           => pc[conn] = "release"
        /\ (pc'[conn] = "read" /\ pc[conn] /= "read") => pc[conn] = "done"
        /\ (pc'[conn] = "switch" /\ pc[conn] /= "switch")
           => pc[conn] = "read"]_vars

\* C22 witness: the handler of a play has sent its result, made its release
\* and returned, and the next message has not been read yet.
C22_Witness ==
    \E conn \in Conns :
        /\ pc[conn] = "done"
        /\ IsPlay(conn)
        /\ Len(out[conn]) = 2
        /\ out[conn][1].type = MsgTypePlayResult
        /\ activePlayKey(currentClientID[conn]) \notin locks

\* conn is handling, or has just handled, a message that is no end_play.
HandlingOther(conn) ==
    pc[conn] \notin {"read", "closed"} /\ ~IsEndPlay(conn)

\* C23: the read loop of a connection ends only when ReadMessage returns an
\* error or when the handler of an end_play has returned; whatever else is
\* read, and whatever error its handling runs into, the handler returns and
\* the loop comes back to ReadMessage with the connection open.
C23_LoopEndsOnlyOnReadErrorOrEndPlay ==
    /\ [][\A conn \in SoloConns :
            /\ (pc'[conn] = "closed" /\ pc[conn] /= "closed")
               => \/ pc[conn] = "read"
                  \/ pc[conn] = "done" /\ IsEndPlay(conn)
            /\ (HandlingOther(conn) /\ pc[conn] = "done"
                /\ pc'[conn] /= pc[conn])
               => pc'[conn] = "read"]_vars
    /\ \A conn \in SoloConns : HandlingOther(conn) ~> (pc[conn] = "read")

\* C23 witness: the connection is back at ReadMessage, still bound to its
\* client, after a play whose lock release failed: the key is left behind.
C23_Witness ==
    \E conn \in SoloConns :
        /\ pc[conn] = "read"
        /\ currentClientID[conn] = "a"
        /\ activePlayKey("a") \in locks

\* The release of conn's round succeeds in this step: the handler returns
\* and has nothing to report.
ReleaseSucceeds(conn) ==
    /\ pc[conn] = "release"
    /\ pc'[conn] = "done"
    /\ out'[conn] = out[conn]

\* C24: a round that has completed with a successful release leaves no key
\* behind, a key comes into being only by the successful SetNX of a round
\* that starts, and a play is answered ACTIVE_PLAY_EXISTS only when its
\* SetNX finds a key: so the next play is never turned away on account of a
\* round whose release succeeded.
C24_NoRejectionAfterRelease ==
    [][/\ \A conn \in Conns :
            LET key == activePlayKey(currentClientID[conn])
            IN /\ ReleaseSucceeds(conn) => key \notin locks'
               /\ (pc[conn] = "acquire"
                   /\ out'[conn] = <<ErrorPayload(ErrCodeActivePlayExists)>>)
                  => key \in locks
       /\ \A key \in Clients :
            (key \notin locks /\ key \in locks')
            => \E conn \in Conns :
                  /\ pc[conn] = "acquire"
                  /\ pc'[conn] = "ensure"
                  /\ activePlayKey(currentClientID[conn]) = key]_vars

\* C24 witness: a connection has acquired the lock for a second round, the
\* first having lost 250, while the other connection has never named a
\* client.
C24_Witness ==
    \E conn \in Conns :
        /\ pc[conn] = "ensure"
        /\ currentClientID[conn] \in DOMAIN wallets
        /\ wallets[currentClientID[conn]] = 250
        /\ \A k \in Conns \ {conn} : pc[k] = "read" /\ currentClientID[k] = ""

\* conn is handling a get_balance.
IsGetBalance(conn) ==
    msg[conn].kind = "text" /\ msg[conn].type = MsgTypeGetBalance

\* A get_balance whose payload names the connection's client.
WellFormedGetBalance(conn) ==
    /\ IsGetBalance(conn)
    /\ msg[conn].payloadOk
    /\ ~ClientIDMismatch(currentClientID[conn], msg[conn])

\* C25: a well-formed get_balance goes through the ensure and the read,
\* whatever keys exist and whatever rounds are in flight; its steps change
\* no lock key and no balance of an existing wallet, each of its store calls
\* can return while a play of the same client is in flight, and what it
\* sends is one balance_update with the committed balance, or one
\* INTERNAL_ERROR when a store call fails.
C25_GetBalanceLockFree ==
    /\ [](\A conn \in Conns :
            /\ pc[conn] = "gb_ensure" => ENABLED GetBalanceEnsure(conn)
            /\ pc[conn] = "gb_read" => ENABLED GetBalanceRead(conn))
    /\ [][\A conn \in Conns :
            (IsGetBalance(conn) /\ pc'[conn] /= pc[conn]
             /\ pc[conn] \notin {"read", "done"})
            => LET cid == currentClientID[conn]
               IN /\ locks' = locks
                  /\ \A u \in DOMAIN wallets :
                        u \in DOMAIN wallets' /\ wallets'[u] = wallets[u]
                  /\ (pc[conn] = "switch" /\ WellFormedGetBalance(conn))
                     => pc'[conn] = "gb_ensure" /\ out'[conn] = <<>>
                  /\ pc[conn] = "gb_ensure"
                     => \/ pc'[conn] = "gb_read" /\ out'[conn] = <<>>
                        \/ /\ pc'[conn] = "done"
                           /\ out'[conn] = <<ErrorPayload(ErrCodeInternalError)>>
                  /\ pc[conn] = "gb_read"
                     => /\ pc'[conn] = "done"
                        /\ out'[conn] \in
                              {<<BalanceUpdatePayload(cid, wallets[cid])>>,
                               <<ErrorPayload(ErrCodeInternalError)>>}]_vars

\* C25 witness: a get_balance was answered with the balance 250 while a play
\* of the same client, which has debited 250, is in flight on the other
\* connection and its key exists.
C25_Witness ==
    \E conn \in Conns :
        /\ pc[conn] = "done"
        /\ IsGetBalance(conn)
        /\ out[conn] =
              <<BalanceUpdatePayload(currentClientID[conn], 250)>>
        /\ activePlayKey(currentClientID[conn]) \in locks
        /\ \E k \in Conns \ {conn} :
              /\ k \in InFlight(currentClientID[conn])
              /\ debited[k] = 250

\* The rolls on which a bet of betType and betAmount has the given outcome.
RollsWith(betType, betAmount, outcome) ==
    {roll \in AllRolls :
        PlayRound(betType, betAmount, roll[1], roll[2]).Outcome = outcome}

\* C26: of the 36 rolls of the two dice the bet of a round, lt7 or gt7, wins
\* on exactly 15 and loses on exactly 21, the 6 rolls with sum 7 among them.
C26_WinningRolls ==
    \A conn \in SoloConns :
        gameResult[conn] /= NoResult
        => LET betType == msg[conn].betType
               betAmount == msg[conn].betAmount
               wins == RollsWith(betType, betAmount, OutcomeWin)
               loses == RollsWith(betType, betAmount, OutcomeLose)
           IN /\ Cardinality(AllRolls) = 36
              /\ Cardinality(wins) = 15
              /\ Cardinality(loses) = 21
              /\ {roll \in AllRolls : roll[1] + roll[2] = 7} \subseteq loses
              /\ <<gameResult[conn].Die1, gameResult[conn].Die2>> \in
                    IF gameResult[conn].Outcome = OutcomeWin THEN wins
                    ELSE loses

\* C26 witness: a gt7 bet has lost on a roll with sum 7.
C26_Witness ==
    \E conn \in SoloConns :
        /\ gameResult[conn] /= NoResult
        /\ msg[conn].betType = BetTypeGt7
        /\ gameResult[conn].Sum = 7
        /\ gameResult[conn].Outcome = OutcomeLose

\* The messages of the given type that conn has sent for its message.
SentOfType(conn, type) ==
    {i \in 1..Len(out[conn]) : out[conn][i].type = type}

\* C27: a round that reaches its resolution releases the lock before it
\* emits play_result: a handler that has sent play_result is not between its
\* SetNX and its Del any more.
C27_ReleaseBeforeResult ==
    \A conn \in SoloConns :
        SentOfType(conn, MsgTypePlayResult) /= {} => pc[conn] \notin HoldingPcs

\* C28: when PlayRound fails after the debit, the refund is made before
\* INTERNAL_ERROR is emitted: a handler whose refund has not returned yet
\* has sent nothing.
C28_RefundBeforeError ==
    \A conn \in SoloConns :
        pc[conn] \in {"refund", "refund_tx"} => out[conn] = <<>>

\* The two messages of conn's round when every store call of it succeeds:
\* the play_result with the wager of the request and the dice, outcome and
\* winnings of gameResult, then the balance_update with the given balance.
ResultThenBalance(conn, balance) ==
    <<[type |-> MsgTypePlayResult, clientId |-> currentClientID[conn],
       die1 |-> gameResult[conn].Die1, die2 |-> gameResult[conn].Die2,
       outcome |-> gameResult[conn].Outcome,
       betAmount |-> msg[conn].betAmount,
       winnings |-> gameResult[conn].Winnings],
      [type |-> MsgTypeBalanceUpdate, clientId |-> currentClientID[conn],
       balance |-> balance]>>

\* What C29 says of a round up to its release: a credit that succeeds, and a
\* balance read after a loss that succeeds, are followed by play_result and
\* then balance_update, the first messages of the round.
RoundAnswered(conn) ==
    LET cid == currentClientID[conn]
    IN /\ (pc[conn] = "credit_tx" /\ UpdateSucceeds(conn))
          => out'[conn] = ResultThenBalance(conn, wallets'[cid])
       /\ (pc[conn] = "bal_loss" /\ pc'[conn] /= pc[conn]
           /\ out'[conn][1] /= ErrorPayload(ErrCodeInternalError))
          => out'[conn] = ResultThenBalance(conn, wallets[cid])

\* conn returns from a round all of whose store calls succeeded.
AnsweredRoundReturns(conn) ==
    /\ pc[conn] = "release"
    /\ pc'[conn] = "done"
    /\ out[conn][1].type = MsgTypePlayResult

\* C29 as stated: a round whose debit, resolution, credit and balance read
\* succeed emits exactly two messages, play_result and then balance_update.
C29_ResultThenBalance ==
    [][\A conn \in SoloConns :
        /\ RoundAnswered(conn)
        /\ AnsweredRoundReturns(conn)
           => /\ Len(out'[conn]) = 2
              /\ out'[conn] = out[conn]]_vars

\* C29 amended: as stated, except that a release whose Del fails adds
\* FAILED_LOCK_RELEASE as a third message.
C29_ResultThenBalanceUnlessDelFails ==
    [][\A conn \in SoloConns :
        /\ RoundAnswered(conn)
        /\ AnsweredRoundReturns(conn)
           => /\ Len(out[conn]) = 2
              /\ \/ out'[conn] = out[conn]
                 \/ /\ locks' = locks
                    /\ out'[conn] =
                         out[conn] \o <<ErrorPayload(ErrCodeFailedLockRelease)>>]_vars

\* C29 witness: a won round of 250 on the balance 500 has returned with its
\* play_result and then the balance_update of 750, and nothing else.
C29_Witness ==
    \E conn \in SoloConns :
        /\ pc[conn] = "done"
        /\ IsPlay(conn)
        /\ gameResult[conn].Outcome = OutcomeWin
        /\ msg[conn].betAmount = 250
        /\ out[conn] = ResultThenBalance(conn, 750)

\* conn leaves the acquisition on a SetNX the lock store did not answer: the
\* step is not the one handlePlay takes on an answered SetNX.
AcquireFails(conn) ==
    /\ pc[conn] = "acquire"
    /\ pc'[conn] /= pc[conn]
    /\ ~AcquireLockReply(conn, TRUE)

\* C30: when the lock store returns an error on the acquisition, handlePlay
\* emits INTERNAL_ERROR as its only message and returns at once: it calls
\* neither the wallet service nor the resolver, repeats no SetNX, issues no
\* Del, creates no lock key and holds none; the next thing the connection
\* does is read its next message.
C30_AcquireErrorIsInternal ==
    [][\A conn \in SoloConns :
        /\ AcquireFails(conn)
           => /\ out'[conn] = <<ErrorPayload(ErrCodeInternalError)>>
              /\ pc'[conn] = "done"
              /\ pc'[conn] \notin HoldingPcs
              /\ wallets' = wallets
              /\ locks' = locks
              /\ debited'[conn] = debited[conn]
              /\ gameResult'[conn] = gameResult[conn]
        /\ (pc[conn] = "done" /\ pc'[conn] /= pc[conn] /\ IsPlay(conn))
           => /\ pc'[conn] = "read"
              /\ wallets' = wallets
              /\ locks' = locks]_vars

\* C30 witness: a play has returned with INTERNAL_ERROR alone while the key
\* of its client exists. A handler that acquired the key returns with one
\* message only after its Del removed the key, so this play is one whose
\* SetNX failed, and the key is one an earlier round left behind.
C30_Witness ==
    \E conn \in SoloConns :
        /\ pc[conn] = "done"
        /\ IsPlay(conn)
        /\ out[conn] = <<ErrorPayload(ErrCodeInternalError)>>
        /\ activePlayKey(currentClientID[conn]) \in locks

\* What handlePlay does in this step of a round whose debit committed: the
\* round goes one of three ways, by the result of PlayRound, and each way
\* makes its one UpdateBalance call at most, then the Del, then the return.
RoundConcludes(conn) ==
    LET cid == currentClientID[conn]
        A == msg[conn].betAmount
    IN /\ (pc[conn] = "debit_tx" /\ debited'[conn] >= 0)
          => /\ pc'[conn] \in {"bal_loss", "credit", "refund"}
             /\ pc'[conn] = "refund" <=> gameResult'[conn] = NoResult
             /\ pc'[conn] = "credit" <=> gameResult'[conn].Outcome = OutcomeWin
             /\ pc'[conn] = "bal_loss"
                    <=> gameResult'[conn].Outcome = OutcomeLose
       /\ (pc[conn] \in {"credit", "credit_tx"} /\ pc'[conn] /= pc[conn])
          => /\ \/ pc[conn] = "credit" /\ pc'[conn] = "credit_tx"
                \/ pc'[conn] \in {"bal_credit_failed", "release"}
             /\ \/ wallets' = wallets
                \/ wallets' = [wallets EXCEPT
                                 ![cid] = @ + A + gameResult[conn].Winnings]
       /\ (pc[conn] \in {"refund", "refund_tx"} /\ pc'[conn] /= pc[conn])
          => /\ \/ pc[conn] = "refund" /\ pc'[conn] = "refund_tx"
                \/ pc'[conn] = "release"
             /\ \/ wallets' = wallets
                \/ wallets' = [wallets EXCEPT ![cid] = @ + A]
       /\ (pc[conn] \in BalancePcs /\ pc'[conn] /= pc[conn])
          => /\ pc'[conn] = "release"
             /\ wallets' = wallets
       /\ (pc[conn] = "release" /\ pc'[conn] /= pc[conn])
          => /\ pc'[conn] = "done"
             /\ wallets' = wallets
             /\ \/ locks' = locks \ {activePlayKey(cid)}
                \/ out'[conn] =
                     out[conn] \o <<ErrorPayload(ErrCodeFailedLockRelease)>>
       /\ (pc[conn] = "done" /\ IsPlay(conn) /\ pc'[conn] /= pc[conn])
          => /\ pc'[conn] = "read"
             /\ wallets' = wallets

\* C31: a round whose debit committed goes, within its worker and with every
\* store call returning, exactly one of three ways: a loss with no credit,
\* one credit of wager + winnings, or one refund of the wager; then the
\* handler calls the Del and the connection is back at ReadMessage.
C31_DebitedRoundConcludes ==
    /\ \A conn \in SoloConns : (debited[conn] >= 0) ~> (pc[conn] = "read")
    /\ [][\A conn \in SoloConns : RoundConcludes(conn)]_vars

\* C31 witness: a lost round of 250 on the balance 500 has returned: the
\* debit stands, no credit and no refund was made, the key is deleted.
C31_Witness ==
    \E conn \in SoloConns :
        /\ pc[conn] = "done"
        /\ IsPlay(conn)
        /\ debited[conn] = 250
        /\ gameResult[conn].Outcome = OutcomeLose
        /\ wallets[currentClientID[conn]] = 250
        /\ activePlayKey(currentClientID[conn]) \notin locks

\* C32: the Del of a handler's release deletes only a key that the SetNX of
\* the same handler created: never the key another handlePlay for the same
\* clientId created after the first handler's key had expired.
C32_ReleaseDeletesOwnKey ==
    [][\A conn \in Conns :
        LET key == activePlayKey(currentClientID[conn])
        IN (/\ pc[conn] = "release"
            /\ pc'[conn] = "done"
            /\ key \in locks
            /\ key \notin locks')
           => lockSetBy[key] = conn]_vars

\* conn's handlePlay is at its Del: the step that leaves "release" is the one
\* call of Del that releaseRedisLock makes.
DelIssued(conn) == pc[conn] = "release" /\ pc'[conn] /= pc[conn]

\* The positions of handlePlay at which no SetNX of it has succeeded.
NotAcquiredPcs == {"switch", "acquire"}

\* What this step of conn's handlePlay says of its Del: a handler that has
\* not acquired returns without one; a handler that acquired goes on to the
\* Del and nowhere else, makes it once, and returns.
OneDelIfAcquired(conn) ==
    /\ (IsPlay(conn) /\ pc[conn] \in NotAcquiredPcs /\ pc'[conn] /= pc[conn])
       => /\ pc'[conn] \in {"acquire", "ensure", "done"}
          /\ pc'[conn] = "ensure" => pc[conn] = "acquire"
          /\ pc'[conn] = "done" => locks' = locks
    /\ (pc[conn] \in HoldingPcs \ {"release"} /\ pc'[conn] /= pc[conn])
       => pc'[conn] \in HoldingPcs
    /\ DelIssued(conn)
       => /\ pc'[conn] = "done"
          /\ \/ locks' = locks \ {activePlayKey(currentClientID[conn])}
             \/ /\ locks' = locks
                /\ out'[conn] =
                     out[conn] \o <<ErrorPayload(ErrCodeFailedLockRelease)>>
    /\ (pc[conn] = "done" /\ pc'[conn] /= pc[conn])
       => pc'[conn] \in {"read", "closed"}

\* C33: a handlePlay whose SetNX succeeded issues the Del exactly once, and
\* one that returned before (bad payload, bad client id, invalid bet, error
\* of the lock store, key already there) issues none: a key is deleted only
\* by the Del of a handler that acquired, or by its expiry.
C33_OneDelIffAcquired ==
    /\ \A conn \in SoloConns : (pc[conn] = "ensure") ~> (pc[conn] = "done")
    /\ [][\A conn \in SoloConns : OneDelIfAcquired(conn)]_vars
    /\ [][locks' /= locks /\ locks' \subseteq locks
            => \/ \E conn \in SoloConns : DelIssued(conn)
               \/ pc' = pc]_vars

\* C33 witness: a play was turned away with ACTIVE_PLAY_EXISTS and has
\* returned; the key it found is still there, no Del was issued for it.
C33_Witness ==
    \E conn \in SoloConns :
        /\ pc[conn] = "done"
        /\ IsPlay(conn)
        /\ out[conn] = <<ErrorPayload(ErrCodeActivePlayExists)>>
        /\ activePlayKey(currentClientID[conn]) \in locks

\* The change conn's returned handlePlay made to the balance of its client:
\* the balance now, less the balance its debit found (what the debit
\* returned plus the wager).
NetChange(conn) ==
    wallets[currentClientID[conn]] - (debited[conn] + msg[conn].betAmount)

\* conn's handlePlay has returned from a round whose debit committed.
DebitedRoundReturned(conn) ==
    /\ pc[conn] = "done"
    /\ IsPlay(conn)
    /\ debited[conn] >= 0

\* C34: a handlePlay with wager A that has returned changed the balance of
\* its client by 0 (no debit committed, or the wager refunded), by -A (a
\* loss, a failed credit or a failed refund) or by +A (a win credited), and
\* by nothing else; no step of it changes the wallet of another client.
C34_NetChangeOfRound ==
    /\ [](\A conn \in SoloConns :
            DebitedRoundReturned(conn)
            => LET A == msg[conn].betAmount
               IN /\ NetChange(conn) \in {0, 0 - A, A}
                  /\ gameResult[conn] = NoResult
                        => NetChange(conn) \in {0, 0 - A}
                  /\ gameResult[conn].Outcome = OutcomeLose
                        => NetChange(conn) = 0 - A
                  /\ gameResult[conn].Outcome = OutcomeWin
                        => NetChange(conn) \in {A, 0 - A})
    /\ [][\A conn \in SoloConns :
            LET cid == currentClientID[conn]
            IN (IsPlay(conn) /\ pc'[conn] /= pc[conn])
               => /\ \A u \in DOMAIN wallets \ {cid} :
                        u \in DOMAIN wallets' /\ wallets'[u] = wallets[u]
                  /\ DOMAIN wallets' \subseteq DOMAIN wallets \cup {cid}
                  /\ (debited'[conn] = -1 /\ cid \in DOMAIN wallets)
                        => wallets' = wallets
                  /\ (debited'[conn] = -1 /\ cid \notin DOMAIN wallets
                      /\ cid \in DOMAIN wallets')
                        => wallets'[cid] = DefaultInitialBalance]_vars

\* C34 witness: a round of 250 on the balance 500 whose PlayRound failed and
\* whose refund failed too has returned: the net change is -250.
C34_Witness ==
    \E conn \in SoloConns :
        /\ DebitedRoundReturned(conn)
        /\ msg[conn].betAmount = 250
        /\ gameResult[conn] = NoResult
        /\ debited[conn] = 250
        /\ NetChange(conn) = -250

\* The codes with which handlePlay turns a play away before any round is
\* played.
RejectionCodes ==
    {ErrCodeInvalidBet, ErrCodeBetTooHigh, ErrCodeInvalidBetType,
     ErrCodeBadRequest, ErrCodeActivePlayExists, ErrCodeInsufficientFunds}

\* conn has answered its message with one of the rejection codes.
Rejected(conn) ==
    \E i \in 1..Len(out[conn]) :
        /\ out[conn][i].type = MsgTypeError
        /\ out[conn][i].code \in RejectionCodes

\* C35: a play_result is emitted only in answer to a play whose debit
\* committed and whose PlayRound returned a result, of which it carries the
\* dice, and at most once for one play message; a play answered with
\* INVALID_BET, BET_TOO_HIGH, INVALID_BET_TYPE, BAD_REQUEST,
\* ACTIVE_PLAY_EXISTS or INSUFFICIENT_FUNDS is answered with neither a
\* play_result nor a balance_update.
C35_PlayResultOnlyForResolvedRound ==
    \A conn \in SoloConns :
        /\ Cardinality(SentOfType(conn, MsgTypePlayResult)) <= 1
        /\ \A i \in SentOfType(conn, MsgTypePlayResult) :
              /\ IsPlay(conn)
              /\ debited[conn] >= 0
              /\ gameResult[conn] /= NoResult
              /\ out[conn][i].die1 = gameResult[conn].Die1
              /\ out[conn][i].die2 = gameResult[conn].Die2
        /\ (IsPlay(conn) /\ Rejected(conn))
           => /\ SentOfType(conn, MsgTypePlayResult) = {}
              /\ SentOfType(conn, MsgTypeBalanceUpdate) = {}
              /\ debited[conn] = -1
              /\ gameResult[conn] = NoResult

\* C35 witness: a lost round has returned with its one play_result, and a
\* balance_update after it.
C35_Witness ==
    \E conn \in SoloConns :
        /\ pc[conn] = "done"
        /\ IsPlay(conn)
        /\ gameResult[conn].Outcome = OutcomeLose
        /\ SentOfType(conn, MsgTypePlayResult) = {1}
        /\ SentOfType(conn, MsgTypeBalanceUpdate) = {2}

\* C36: PlayRound returns an error, and no dice, exactly for a bet type
\* other than lt7 and gt7, so never for a payload validatePlayPayload let
\* through; handlePlay therefore never takes the branch that refunds the
\* wager after a failed PlayRound, and every committed debit has a result.
C36_ResolverNeverFailsAfterValidation ==
    \A conn \in SoloConns :
        /\ pc[conn] \notin {"refund", "refund_tx"}
        /\ (pc[conn] \in HoldingPcs \cup {"done"} /\ debited[conn] >= 0)
           => gameResult[conn] /= NoResult /\ ~gameResult[conn].err
        /\ (IsPlay(conn) /\ msg[conn].payloadOk)
           => \A roll \in AllRolls :
                LET r == PlayRound(msg[conn].betType, msg[conn].betAmount,
                                   roll[1], roll[2])
                IN /\ r.err <=> msg[conn].betType \notin {BetTypeLt7,
                                                          BetTypeGt7}
                   /\ r.err => r.Die1 = 0 /\ r.Die2 = 0 /\ r.Sum = 0
                   /\ ~r.err => r.Die1 = roll[1] /\ r.Die2 = roll[2]
                   /\ validatePlayPayload(msg[conn]) = "nil" => ~r.err

\* C36 witness: the debit of a play with bet type gt7 committed and
\* PlayRound returned a result for it, the roll 6 + 5.
C36_Witness ==
    \E conn \in SoloConns :
        /\ pc[conn] = "credit"
        /\ msg[conn].betType = BetTypeGt7
        /\ debited[conn] >= 0
        /\ ~gameResult[conn].err
        /\ gameResult[conn].Sum = 11

\* The end_play conn is handling has a payload that does not parse, or a
\* clientId that is empty or is not the connection's.
BadEndPlay(conn) ==
    /\ IsEndPlay(conn)
    /\ \/ ~msg[conn].payloadOk
       \/ currentClientID[conn] = ""
       \/ msg[conn].clientId /= currentClientID[conn]

IsTextFrame(conn) == msg[conn].kind \in {"text", "badenv"}

\* C38: every text message read, whatever its type and whether it parses or
\* not, has at least one message written in answer when its handling is
\* over, before ReadMessage is called again; and with every store call
\* returning its handling does get there.
C38_EveryTextMessageAnswered ==
    /\ [](\A conn \in SoloConns :
            (pc[conn] = "done" /\ IsTextFrame(conn)) => Len(out[conn]) >= 1)
    /\ [][\A conn \in SoloConns :
            (IsTextFrame(conn) /\ pc'[conn] \in {"read", "closed"}
             /\ pc[conn] /= pc'[conn])
            => pc[conn] = "done" /\ Len(out[conn]) >= 1]_vars
    /\ \A conn \in SoloConns :
            (pc[conn] \notin {"read", "done", "closed"})
                ~> (pc[conn] = "done")

\* C38 witness: a text frame that is no envelope was answered with
\* BAD_REQUEST, and the loop is about to read again.
C38_Witness ==
    \E conn \in SoloConns :
        /\ pc[conn] = "done"
        /\ msg[conn].kind = "badenv"
        /\ out[conn] = <<ErrorPayload(ErrCodeBadRequest)>>

\* The step is one of conn's worker; X is the client id the connection has
\* after it, the one of the message being handled.
StepOf(conn) == pc'[conn] /= pc[conn]

\* C39: a step of the handling of a message of client X changes neither the
\* wallet nor the lock key of any other client Y, and a play of Y is
\* answered ACTIVE_PLAY_EXISTS only when the key of Y itself exists,
\* whatever keys of other clients do.
C39_OtherClientsUntouched ==
    [][\A conn \in Conns :
        StepOf(conn)
        => LET X == currentClientID'[conn]
           IN /\ \A Y \in Clients \ {X} :
                    /\ Y \in DOMAIN wallets <=> Y \in DOMAIN wallets'
                    /\ Y \in DOMAIN wallets => wallets'[Y] = wallets[Y]
                    /\ Y \in locks <=> Y \in locks'
              /\ (/\ pc[conn] = "acquire"
                  /\ out'[conn] = <<ErrorPayload(ErrCodeActivePlayExists)>>)
                 => X \in locks]_vars

\* C39 witness: a play of "b" got past its acquisition and debited the
\* wallet of "b" while the other connection holds the key of "a" in a round
\* of its own, the wallet of "a" untouched at its 500.
C39_Witness ==
    \E conn \in Conns : \E other \in Conns \ {conn} :
        /\ currentClientID[conn] = "b"
        /\ currentClientID[other] = "a"
        /\ pc[other] = "debit"
        /\ pc[conn] = "bal_loss"
        /\ locks = {"a", "b"}
        /\ wallets = [u \in {"a", "b"} |-> IF u = "a" THEN 500 ELSE 250]

\* The places of FAILED_LOCK_RELEASE among the messages conn has written.
FailedLockReleaseIn(conn) ==
    {i \in 1..Len(out[conn]) :
        out[conn][i] = ErrorPayload(ErrCodeFailedLockRelease)}

\* C40: FAILED_LOCK_RELEASE is sent for a round exactly when the Del of its
\* release fails: the deferred function sends it when releaseRedisLock
\* returns false, which it does when the Del was not answered and only
\* then, so not for a key that had expired before a Del that is answered.
\* It is sent once, as the last message of the round, after the play_result
\* and the balance_update if there are any, and only by handlePlay.
C40_FailedLockReleaseIffDelFails ==
    /\ [](\A conn \in SoloConns :
            /\ FailedLockReleaseIn(conn) /= {}
               => /\ pc[conn] = "done"
                  /\ IsPlay(conn)
                  /\ FailedLockReleaseIn(conn) = {Len(out[conn])}
            /\ pc[conn] = "release"
               => \A redisOk \in BOOLEAN :
                     ~ReleaseOutcome(conn, redisOk).released <=> ~redisOk)
    /\ [][\A conn \in SoloConns :
            LET key == activePlayKey(currentClientID[conn])
                failed == ErrorPayload(ErrCodeFailedLockRelease)
            IN (pc[conn] = "release" /\ pc'[conn] /= pc[conn])
               => /\ \/ out'[conn] = out[conn]
                     \/ out'[conn] = out[conn] \o <<failed>>
                  /\ out'[conn] /= out[conn] => locks' = locks
                  /\ out'[conn] = out[conn] => key \notin locks']_vars

\* C40 witness: a won round has returned with its play_result, its
\* balance_update and then FAILED_LOCK_RELEASE, and the key is still there.
C40_Witness ==
    \E conn \in SoloConns :
        /\ pc[conn] = "done"
        /\ IsPlay(conn)
        /\ Len(out[conn]) = 3
        /\ out[conn][1].type = MsgTypePlayResult
        /\ out[conn][2].type = MsgTypeBalanceUpdate
        /\ out[conn][3] = ErrorPayload(ErrCodeFailedLockRelease)
        /\ activePlayKey(currentClientID[conn]) \in locks

====
